---- MODULE Spec2Model ----
(***************************************************************************)
(* Model of disk_analyzer's DiskScanner (src/disk_analyzer/scanner.py).    *)
(*                                                                         *)
(* The file system is a finite tree of directory entries fixed in the      *)
(* initial state; every file-system call of the scanner (os.path.isdir,    *)
(* os.scandir, DirEntry.is_symlink/is_file/is_dir/stat) is answered from   *)
(* it, failures included.  The recursion of _scan_directory /              *)
(* _process_directory is an explicit stack of frames.                      *)
(*                                                                         *)
(* Spec is one call of scan; SpecInterrupt adds a KeyboardInterrupt that   *)
(* may arrive at any step of the walk; SpecTwice adds a second call of     *)
(* scan on the same DiskScanner; SpecFair is Spec with the walk never     *)
(* suspended for ever; SpecSize is calls of format_size and parse_size;    *)
(* SpecDup is a run of the duplicate detector main calls; SpecWorkers and  *)
(* SpecOverlap are threads on one DiskScanner; SpecAnalyze adds calls of   *)
(* the SpaceAnalyzer methods on the ScanResult returned.                   *)
(***************************************************************************)
EXTENDS Integers, Sequences, FiniteSets, TLC

\* ------------------------------------------------------------------------
\* Bounds of the model.
\* ------------------------------------------------------------------------
\* File sizes range over 1..MaxFileSize; min_size over {0, MaxFileSize}.
MaxFileSize == 2

\* The largest number n of the strings "n", "nB", "n KB", ... parsed.
MaxNumber == 10

\* The number of files given to the duplicate detector, at most.
MaxFiles == 4

\* The number of files and directories a thread's walk records, at most.
MaxRecords == 2

\* ------------------------------------------------------------------------
\* Directory entries: a slot is the position of an entry in the tree (the
\* sequence of child indexes from the root); os.scandir yields the present
\* children of a directory in index order.
\* ------------------------------------------------------------------------
Root == << >>
S == <<1>>
A == <<2>>
V == <<3>>
B == <<1, 1>>
D == <<1, 2>>
C == <<1, 2, 1>>

Slots == {Root, S, A, V, B, D, C}

SkelChildren(p) ==
  CASE p = Root -> <<S, A, V>>
    [] p = S    -> <<B, D>>
    [] p = D    -> <<C>>
    [] OTHER    -> << >>

Parent(p) == SubSeq(p, 1, Len(p) - 1)

\* p is q or lies beneath q.
IsUnder(p, q) == Len(q) <= Len(p) /\ SubSeq(p, 1, Len(q)) = q

\* Strings are sequences of characters, so that `in` on strings is a real
\* substring test.
RootPath == << "/", "r" >>

SlotName(p) ==
  CASE p = S -> << "s" >>
    [] p = A -> << "a" >>
    [] p = V -> << ".", "v", "o", "l" >>
    [] p = B -> << "b" >>
    [] p = D -> << "d" >>
    [] p = C -> << "c" >>
    [] OTHER -> << "r" >>

\* DirEntry.path: the path given to os.scandir joined with the entry's name.
RECURSIVE PathStr(_)
PathStr(p) ==
  IF p = Root THEN RootPath
  ELSE PathStr(Parent(p)) \o << "/" >> \o SlotName(p)

\* Python's `pattern in path` on strings.
IsSubstring(pat, str) ==
  \E i \in 0..(Len(str) - Len(pat)) : SubSeq(str, i + 1, i + Len(pat)) = pat

DEFAULT_EXCLUDES ==
  { << ".", "S", "p", "o", "t", "l", "i", "g", "h", "t", "-", "V", "1", "0", "0" >>,
    << ".", "f", "s", "e", "v", "e", "n", "t", "s", "d" >>,
    << ".", "T", "r", "a", "s", "h", "e", "s" >>,
    << ".", "D", "o", "c", "u", "m", "e", "n", "t", "R", "e", "v", "i", "s", "i", "o", "n", "s", "-", "V", "1", "0", "0" >>,
    << ".", "T", "e", "m", "p", "o", "r", "a", "r", "y", "I", "t", "e", "m", "s" >>,
    << ".", "v", "o", "l" >>,
    << "S", "y", "s", "t", "e", "m", "/", "V", "o", "l", "u", "m", "e", "s", "/", "D", "a", "t", "a", "/", ".", "S", "p", "o", "t", "l", "i", "g", "h", "t", "-", "V", "1", "0", "0" >>,
    << "L", "i", "b", "r", "a", "r", "y", "/", "M", "o", "b", "i", "l", "e", " ", "D", "o", "c", "u", "m", "e", "n", "t", "s" >>,
    << "i", "C", "l", "o", "u", "d", " ", "D", "r", "i", "v", "e" >>,
    << "C", "l", "o", "u", "d", "S", "t", "o", "r", "a", "g", "e" >>,
    << ".", "i", "C", "l", "o", "u", "d" >> }

\* ------------------------------------------------------------------------
\* The file systems the scan is run on.
\*   kind  : "none" (no such entry), "file", "dir", "other" (neither a
\*           regular file nor a directory, e.g. a socket or a dangling link)
\*   size  : st_size of the file (of the link's target for a symlink)
\*   link  : the entry is a symbolic link to something of that kind
\*   fault : the file-system call that fails on this entry
\*           classify_perm / classify_os : is_symlink/is_file/is_dir raises
\*                                         PermissionError / another OSError
\*           stat                        : DirEntry.stat raises OSError
\*           open_perm / open_os         : os.scandir raises
\*           readdir                     : the scandir iterator of the
\*                                         parent raises OSError instead
\*                                         of yielding this entry
\* ------------------------------------------------------------------------
Ent(k, n) == [kind |-> k, size |-> n, link |-> FALSE, fault |-> "none"]
Absent == Ent("none", 0)
Dir == Ent("dir", 0)

FileSizes == 1..MaxFileSize
LeafOpts == {Absent} \cup {Ent("file", n) : n \in FileSizes}

MakeTree(s, a, b, d, c) ==
  (Root :> Dir) @@ (S :> s) @@ (A :> a) @@ (V :> Absent) @@
  (B :> b) @@ (D :> d) @@ (C :> c)

\* The plain trees: directories and regular files with ordinary names.
Trees ==
  {MakeTree(Absent, a, Absent, Absent, Absent) : a \in LeafOpts}
  \cup
  {MakeTree(Dir, a, b, Absent, Absent) : a \in LeafOpts, b \in LeafOpts}
  \cup
  {MakeTree(Dir, a, b, Dir, c) :
      a \in LeafOpts, b \in LeafOpts, c \in LeafOpts}

Present(t) == {p \in Slots : t[p].kind # "none"}

\* What os.scandir(p) yields, in order.
EntriesIn(t, p) == SelectSeq(SkelChildren(p), LAMBDA q : t[q].kind # "none")

\* The calls that may fail on entry p.  Classification is made to fail
\* with PermissionError on files and with a plain OSError on directories.
FaultsFor(t, p) ==
  CASE p = Root           -> {"open_perm", "open_os"}
    [] t[p].kind = "dir"  -> {"classify_os", "readdir", "open_perm", "open_os"}
    [] t[p].kind = "file" -> {"classify_perm", "readdir", "stat"}
    [] OTHER              -> {}

\* A plain tree, and the same tree with one peculiarity: a failing call,
\* a symbolic link, an entry that is neither a regular file nor a
\* directory, or a file with the built-in excluded name .vol.
Variants(t) ==
  {t}
  \cup UNION {{[t EXCEPT ![p].fault = f] : f \in FaultsFor(t, p)} :
                p \in Present(t)}
  \cup {[t EXCEPT ![p].link = TRUE] : p \in Present(t) \ {Root}}
  \cup {[t EXCEPT ![p] = Ent("other", 0)] :
          p \in {q \in Present(t) : t[q].kind = "file"}}
  \cup {[t EXCEPT ![V] = Ent("file", 1)]}

EmptyTree == MakeTree(Absent, Absent, Absent, Absent, Absent)

\* Roots that do not exist or are not directories.
BadRoots ==
  {[EmptyTree EXCEPT ![Root] = Absent],
   [EmptyTree EXCEPT ![Root] = Ent("file", 1)]}

FileSystems == BadRoots \cup UNION {Variants(t) : t \in Trees}

\* Caller-supplied exclusion patterns: none, the name of directory s/d,
\* and a pattern that is no entry's name but occurs in the path of s and
\* of everything beneath it.
SuppliedPatterns == { {}, { << "d" >> }, { << "/", "s" >> } }

MinSizes == {0, MaxFileSize}

\* follow_symlinks is read only when an entry is a symbolic link; it is
\* left at its default on file systems without one.
FollowOptions(t) ==
  IF \E p \in Slots : t[p].link THEN BOOLEAN ELSE {FALSE}

\* Optional[int]: << >> is None, << m >> is the limit m.  Directories lie
\* at depths 1 and 2, so limits above 1 behave as None does.
DepthLimits == { << >>, << 0 >>, << 1 >> }

\* ------------------------------------------------------------------------
\* State.
\* ------------------------------------------------------------------------
VARIABLES
  fs,               \* the file system
  supplied,         \* the exclude_patterns argument of __init__
  min_size,         \* DiskScanner.min_size
  max_depth,        \* DiskScanner.max_depth
  follow_symlinks,  \* DiskScanner.follow_symlinks
  files_scanned,    \* DiskScanner._files_scanned
  dirs_scanned,     \* DiskScanner._dirs_scanned
  pc,               \* "ready", "scanning", "returned", "raised"
  stack,            \* frames of _scan_directory, innermost last
  nodes,            \* the DirInfo objects created so far, by slot
  result,           \* the ScanResult of the call
  callbacks,        \* the calls made to progress_callback
  listed,           \* the directories os.scandir was called on, in order
  visited,          \* the entries the loop body was run for
  skipped,          \* the entries _should_exclude returned True for
  raised,           \* the entries a file-system call raised on
  constructed,      \* the number of FileInfo objects constructed
  interrupted,      \* KeyboardInterrupt has been raised during the walk
  call,             \* the last call of format_size or parse_size
  dup,              \* the run of the duplicate detector
  threads,          \* the threads that use the scanner, by number
  lock,             \* DiskScanner._lock: the thread holding it, or Unlocked
  answer,           \* what the last call of a SpaceAnalyzer method returned
  earlier           \* what earlier calls of scan returned to their caller

vars == << fs, supplied, min_size, max_depth, follow_symlinks,
           files_scanned, dirs_scanned, pc, stack, nodes, result, callbacks,
           listed, visited, skipped, raised, constructed, interrupted,
           call, earlier, dup, threads, lock, answer >>

config == << fs, supplied, min_size, max_depth, follow_symlinks >>

history == << listed, visited, skipped, raised, constructed >>

\* The variables of the collaborators of the scanner, which no method of
\* DiskScanner reads or assigns.
others == << call, dup, threads, lock, answer >>

\* ------------------------------------------------------------------------
\* Objects.
\* ------------------------------------------------------------------------
\* A FileInfo object: its fields, and its identity as the number of the
\* constructor call that made it.
FileInfo(p, n) == [path |-> p, size |-> n, id |-> constructed + 1]

\* The number of the scan call that is being made, or will be made next.
ScanCall == Len(earlier) + 1

\* A DirInfo object, with new lists of its own.  It is referred to by its
\* slot among the objects of the scan call that made it.
DirInfo(p) ==
  [path |-> p, total_size |-> 0, file_count |-> 0, dir_count |-> 0,
   files |-> << >>, subdirs |-> << >>, error |-> "None",
   made_by |-> ScanCall]

ScanResult(p) ==
  [root |-> p, total_size |-> 0, total_files |-> 0, total_dirs |-> 0,
   errors |-> << >>, all_files |-> << >>, all_dirs |-> << >>,
   made_by |-> ScanCall]

\* No ScanResult has been constructed.
NoResult == [root |-> << 0 >>]

\* Neither format_size nor parse_size has been called.
NoCall == [fn |-> "none"]

\* The duplicate detector has not been run.
NoDetection == [pc |-> "none"]

\* No method of a SpaceAnalyzer has been called.
NoAnswer == [fn |-> "none"]

\* threading.Lock(): no thread holds the lock.
Unlocked == 0

\* No thread but the caller uses the scanner.
NoThreads == << >>

Frame(p, d, ph) == [dir |-> p, depth |-> d, idx |-> 1, phase |-> ph]

\* ------------------------------------------------------------------------
\* DiskScanner.__init__
\* ------------------------------------------------------------------------
\* Variant: the supplied patterns are not merged in.
InitExcludesDefaultsOnly(given) == DEFAULT_EXCLUDES

InitExcludes(given) ==
  IF given # {} THEN DEFAULT_EXCLUDES \cup given ELSE DEFAULT_EXCLUDES

\* DiskScanner.exclude_patterns: set by __init__ and never changed after.
exclude_patterns == InitExcludes(supplied)

Init ==
  /\ fs \in FileSystems
  /\ supplied \in SuppliedPatterns
  /\ min_size \in MinSizes
  /\ max_depth \in DepthLimits
  /\ follow_symlinks \in FollowOptions(fs)
  /\ files_scanned = 0
  /\ dirs_scanned = 0
  /\ pc = "ready"
  /\ stack = << >>
  /\ nodes = << >>
  /\ result = NoResult
  /\ callbacks = << >>
  /\ listed = << >>
  /\ visited = {}
  /\ skipped = {}
  /\ raised = {}
  /\ constructed = 0
  /\ interrupted = FALSE
  /\ call = NoCall
  /\ dup = NoDetection
  /\ threads = NoThreads
  /\ lock = Unlocked
  /\ answer = NoAnswer
  /\ earlier = << >>

\* ------------------------------------------------------------------------
\* DiskScanner._should_exclude
\* ------------------------------------------------------------------------
\* Variant: only the base name is looked up, the path is not searched.
ShouldExcludeNameOnly(path, name) == name \in exclude_patterns

ShouldExclude(path, name) ==
  \/ name \in exclude_patterns
  \/ \E pattern \in exclude_patterns : IsSubstring(pattern, path)

\* ------------------------------------------------------------------------
\* DiskScanner.scan
\* ------------------------------------------------------------------------
\* Variant: the counters of the scanner are not reset.
ScanBeginNoReset ==
  /\ pc = "ready"
  /\ fs[Root].kind = "dir"
  /\ result' = ScanResult(Root)
  /\ nodes' = (Root :> DirInfo(Root))
  /\ stack' = << Frame(Root, 0, "enter") >>
  /\ pc' = "scanning"
  /\ UNCHANGED << config, others, earlier, interrupted, files_scanned,
                  dirs_scanned, callbacks, history >>

\* Variant: only the existence of the path is checked.
RootExists == fs[Root].kind # "none"

\* os.path.exists(path) and os.path.isdir(path)
RootAccepted == fs[Root].kind # "none" /\ fs[Root].kind = "dir"

\* The precondition fails: ValueError, nothing else happens.
ScanRaise ==
  /\ pc = "ready"
  /\ ~RootAccepted
  /\ pc' = "raised"
  /\ UNCHANGED << config, others, earlier, interrupted, files_scanned,
                  dirs_scanned, stack, nodes, result, callbacks, history >>

ScanBegin ==
  /\ pc = "ready"
  /\ RootAccepted
  /\ result' = ScanResult(Root)
  /\ nodes' = (Root :> DirInfo(Root))
  /\ files_scanned' = 0
  /\ dirs_scanned' = 0
  /\ stack' = << Frame(Root, 0, "enter") >>
  /\ pc' = "scanning"
  /\ UNCHANGED << config, others, earlier, interrupted, callbacks, history >>

\* ------------------------------------------------------------------------
\* DiskScanner._scan_directory
\* ------------------------------------------------------------------------
Top == stack[Len(stack)]

SetTop(f) == [stack EXCEPT ![Len(stack)] = f]

Entries(p) == EntriesIn(fs, p)

PermMessage(p) == [kind |-> "perm", path |-> p]
OsMessage(p) == [kind |-> "os", path |-> p]

\* self.progress_callback(dir_info.path, files_scanned, dirs_scanned)
Progress(p) == [path |-> p, files |-> files_scanned, dirs |-> dirs_scanned]

Running == pc = "scanning" /\ Len(stack) > 0

\* Variant: the cut-off already applies at depth = max_depth.
DepthCutoffAtLimit ==
  /\ Running
  /\ Top.phase = "enter"
  /\ Len(max_depth) > 0 /\ Top.depth >= max_depth[1]
  /\ stack' = SetTop([Top EXCEPT !.phase = "returned"])
  /\ UNCHANGED << config, others, earlier, interrupted, files_scanned,
                  dirs_scanned, pc, nodes, result, callbacks, history >>

\* depth > max_depth: return at once, before listing and before the callback.
DepthCutoff ==
  /\ Running
  /\ Top.phase = "enter"
  /\ Len(max_depth) > 0 /\ Top.depth > max_depth[1]
  /\ stack' = SetTop([Top EXCEPT !.phase = "returned"])
  /\ UNCHANGED << config, others, earlier, interrupted, files_scanned,
                  dirs_scanned, pc, nodes, result, callbacks, history >>

WithinDepth == ~(Len(max_depth) > 0 /\ Top.depth > max_depth[1])

\* os.scandir(dir_info.path) succeeds.
OpenDirectory ==
  /\ Running
  /\ Top.phase = "enter"
  /\ WithinDepth
  /\ fs[Top.dir].fault \notin {"open_perm", "open_os"}
  /\ listed' = Append(listed, Top.dir)
  /\ stack' = SetTop([Top EXCEPT !.phase = "iter"])
  /\ UNCHANGED << config, others, earlier, interrupted, files_scanned,
                  dirs_scanned, pc, nodes, result, callbacks, visited,
                  skipped, raised, constructed >>

\* Variant: the failure is logged but the node is not marked.
ListingFailedNoMarker(p, marker, message) ==
  /\ nodes' = nodes
  /\ result' = [result EXCEPT !.errors = Append(@, message)]
  /\ raised' = raised \cup {p}
  /\ callbacks' = Append(callbacks, Progress(p))
  /\ stack' = SetTop([Top EXCEPT !.phase = "returned"])

\* The outer handlers: mark the node, log the message, then the callback.
ListingFailed(p, marker, message) ==
  /\ nodes' = [nodes EXCEPT ![p].error = marker]
  /\ result' = [result EXCEPT !.errors = Append(@, message)]
  /\ raised' = raised \cup {p}
  /\ callbacks' = Append(callbacks, Progress(p))
  /\ stack' = SetTop([Top EXCEPT !.phase = "returned"])

\* Variant: when os.scandir raises, the listing is tried again.
OpenFailRetry ==
  /\ Running
  /\ Top.phase = "enter"
  /\ WithinDepth
  /\ fs[Top.dir].fault \in {"open_perm", "open_os"}
  /\ listed' = Append(listed, Top.dir)
  /\ raised' = raised \cup {Top.dir}
  /\ UNCHANGED << config, others, earlier, interrupted, files_scanned,
                  dirs_scanned, pc, stack, nodes, result, callbacks, visited,
                  skipped, constructed >>

\* os.scandir(dir_info.path) raises.
OpenFail ==
  /\ Running
  /\ Top.phase = "enter"
  /\ WithinDepth
  /\ fs[Top.dir].fault \in {"open_perm", "open_os"}
  /\ listed' = Append(listed, Top.dir)
  /\ IF fs[Top.dir].fault = "open_perm"
       THEN ListingFailed(Top.dir, "perm", PermMessage(Top.dir))
       ELSE ListingFailed(Top.dir, "os", OsMessage(Top.dir))
  /\ UNCHANGED << config, others, earlier, interrupted, files_scanned,
                  dirs_scanned, pc, visited, skipped, constructed >>

\* The iterator raises instead of yielding its next entry.
IterRaises ==
  /\ Top.idx <= Len(Entries(Top.dir))
  /\ fs[Entries(Top.dir)[Top.idx]].fault = "readdir"

IterFail ==
  /\ Running
  /\ Top.phase = "iter"
  /\ IterRaises
  /\ ListingFailed(Top.dir, "os", OsMessage(Top.dir))
  /\ UNCHANGED << config, others, earlier, interrupted, files_scanned,
                  dirs_scanned, pc, listed, visited, skipped, constructed >>

\* Variant: the directory is finished without the callback.
FinishDirectorySilent ==
  /\ Running
  /\ Top.phase = "iter"
  /\ ~IterRaises
  /\ Top.idx > Len(Entries(Top.dir))
  /\ stack' = SetTop([Top EXCEPT !.phase = "returned"])
  /\ UNCHANGED << config, others, earlier, interrupted, files_scanned,
                  dirs_scanned, pc, nodes, result, callbacks, history >>

\* The iterator is exhausted: leave the try block, then the callback.
FinishDirectory ==
  /\ Running
  /\ Top.phase = "iter"
  /\ ~IterRaises
  /\ Top.idx > Len(Entries(Top.dir))
  /\ callbacks' = Append(callbacks, Progress(Top.dir))
  /\ stack' = SetTop([Top EXCEPT !.phase = "returned"])
  /\ UNCHANGED << config, others, earlier, interrupted, files_scanned,
                  dirs_scanned, pc, nodes, result, history >>

\* The iterator yields entry e: the body of the for loop runs for it.
HasEntry ==
  /\ Running
  /\ Top.phase = "iter"
  /\ ~IterRaises
  /\ Top.idx <= Len(Entries(Top.dir))

Entry == Entries(Top.dir)[Top.idx]

Advance == stack' = SetTop([Top EXCEPT !.idx = @ + 1])

\* Variant: the exclusion check is applied to files only.
ExcludedFilesOnly(e) ==
  fs[e].kind # "dir" /\ ShouldExclude(PathStr(e), SlotName(e))

Excluded(e) == ShouldExclude(PathStr(e), SlotName(e))

ClassifyFails(e) == fs[e].fault \in {"classify_perm", "classify_os"}

\* Variant: only links to regular files are skipped.
SymlinkSkippedFilesOnly(e) ==
  fs[e].link /\ fs[e].kind = "file" /\ ~follow_symlinks

SymlinkSkipped(e) == fs[e].link /\ ~follow_symlinks

\* _should_exclude(...) is true: continue.
SkipExcluded ==
  /\ HasEntry
  /\ Excluded(Entry)
  /\ visited' = visited \cup {Entry}
  /\ skipped' = skipped \cup {Entry}
  /\ Advance
  /\ UNCHANGED << config, others, earlier, interrupted, files_scanned,
                  dirs_scanned, pc, nodes, result, callbacks, listed, raised,
                  constructed >>

\* is_symlink / is_file / is_dir raises (the first of them that is called):
\* the inner handlers log a message.
EntryError ==
  /\ HasEntry
  /\ ~Excluded(Entry)
  /\ ClassifyFails(Entry)
  /\ result' = [result EXCEPT !.errors =
        Append(@, IF fs[Entry].fault = "classify_perm"
                    THEN PermMessage(Entry) ELSE OsMessage(Entry))]
  /\ visited' = visited \cup {Entry}
  /\ raised' = raised \cup {Entry}
  /\ Advance
  /\ UNCHANGED << config, others, earlier, interrupted, files_scanned,
                  dirs_scanned, pc, nodes, callbacks, listed, skipped,
                  constructed >>

\* entry.is_symlink() and not self.follow_symlinks: continue.
SkipSymlink ==
  /\ HasEntry
  /\ ~Excluded(Entry)
  /\ ~ClassifyFails(Entry)
  /\ SymlinkSkipped(Entry)
  /\ visited' = visited \cup {Entry}
  /\ Advance
  /\ UNCHANGED << config, others, earlier, interrupted, files_scanned,
                  dirs_scanned, pc, nodes, result, callbacks, listed, skipped,
                  raised, constructed >>

Classified(e, k) ==
  /\ ~Excluded(e)
  /\ ~ClassifyFails(e)
  /\ ~SymlinkSkipped(e)
  /\ fs[e].kind = k

\* Neither is_file nor is_dir: nothing is done for the entry.
SkipOther ==
  /\ HasEntry
  /\ Classified(Entry, "other")
  /\ visited' = visited \cup {Entry}
  /\ Advance
  /\ UNCHANGED << config, others, earlier, interrupted, files_scanned,
                  dirs_scanned, pc, nodes, result, callbacks, listed, skipped,
                  raised, constructed >>

\* ------------------------------------------------------------------------
\* DiskScanner._process_file
\* ------------------------------------------------------------------------
\* Variant: the file is recorded but its size is not added to the directory.
RecordFileNoTotal(d, e) ==
  LET file_info == FileInfo(e, fs[e].size)
  IN  /\ nodes' = [nodes EXCEPT
                     ![d].files = Append(@, file_info),
                     ![d].file_count = @ + 1]
      /\ result' = [result EXCEPT !.all_files = Append(@, file_info)]
      /\ files_scanned' = files_scanned + 1
      /\ constructed' = constructed + 1

\* Variant: the flat list receives a copy of the object, not the object.
RecordFileCopy(d, e) ==
  LET file_info == FileInfo(e, fs[e].size)
      copy == [file_info EXCEPT !.id = constructed + 2]
  IN  /\ nodes' = [nodes EXCEPT
                     ![d].files = Append(@, file_info),
                     ![d].total_size = @ + file_info.size,
                     ![d].file_count = @ + 1]
      /\ result' = [result EXCEPT !.all_files = Append(@, copy)]
      /\ files_scanned' = files_scanned + 1
      /\ constructed' = constructed + 2

RecordFile(d, e) ==
  LET file_info == FileInfo(e, fs[e].size)
  IN  /\ nodes' = [nodes EXCEPT
                     ![d].files = Append(@, file_info),
                     ![d].total_size = @ + file_info.size,
                     ![d].file_count = @ + 1]
      /\ result' = [result EXCEPT !.all_files = Append(@, file_info)]
      /\ files_scanned' = files_scanned + 1
      /\ constructed' = constructed + 1

\* Variant: the comparison is inverted.
BelowMinimumInverted(size) == size > min_size

\* size < self.min_size
BelowMinimum(size) == size < min_size

ProcessFile ==
  /\ HasEntry
  /\ Classified(Entry, "file")
  /\ visited' = visited \cup {Entry}
  /\ IF fs[Entry].fault = "stat"
       THEN \* except (OSError, IOError): pass
            /\ raised' = raised \cup {Entry}
            /\ UNCHANGED << nodes, result, files_scanned, constructed >>
       ELSE /\ raised' = raised
            /\ IF BelowMinimum(fs[Entry].size)
                 THEN UNCHANGED << nodes, result, files_scanned,
                                   constructed >>
                 ELSE RecordFile(Top.dir, Entry)
  /\ Advance
  /\ UNCHANGED << config, others, earlier, interrupted, dirs_scanned, pc,
                  callbacks, listed, skipped >>

\* Variant: the new DirInfo is put into the parent's subdirs before it is
\* scanned.
ProcessDirectoryLinkedFirst ==
  /\ HasEntry
  /\ Classified(Entry, "dir")
  /\ visited' = visited \cup {Entry}
  /\ nodes' = [nodes EXCEPT ![Top.dir].subdirs = Append(@, Entry)]
                 @@ (Entry :> DirInfo(Entry))
  /\ stack' = Append(stack, Frame(Entry, Top.depth + 1, "enter"))
  /\ UNCHANGED << config, others, earlier, interrupted, files_scanned,
                  dirs_scanned, pc, result, callbacks, listed, skipped,
                  raised, constructed >>

\* ------------------------------------------------------------------------
\* DiskScanner._process_directory
\* ------------------------------------------------------------------------
\* subdir_info = DirInfo(path=entry.path); self._scan_directory(...)
ProcessDirectory ==
  /\ HasEntry
  /\ Classified(Entry, "dir")
  /\ visited' = visited \cup {Entry}
  /\ nodes' = nodes @@ (Entry :> DirInfo(Entry))
  /\ stack' = Append(stack, Frame(Entry, Top.depth + 1, "enter"))
  /\ UNCHANGED << config, others, earlier, interrupted, files_scanned,
                  dirs_scanned, pc, result, callbacks, listed, skipped,
                  raised, constructed >>

\* Variant: the child is linked in but its total is not added to the parent.
FoldChildNoTotal(parent, child) ==
  /\ nodes' = [nodes EXCEPT
                 ![parent].subdirs = Append(@, child),
                 ![parent].dir_count = @ + 1]
  /\ result' = [result EXCEPT !.all_dirs = Append(@, child)]
  /\ dirs_scanned' = dirs_scanned + 1

\* Variant: the child is put at the front of the flat directory list.
FoldChildAtFront(parent, child) ==
  /\ nodes' = [nodes EXCEPT
                 ![parent].subdirs = Append(@, child),
                 ![parent].total_size = @ + nodes[child].total_size,
                 ![parent].dir_count = @ + 1]
  /\ result' = [result EXCEPT !.all_dirs = << child >> \o @]
  /\ dirs_scanned' = dirs_scanned + 1

\* _scan_directory has returned: fold the child into its parent.
FoldChild(parent, child) ==
  /\ nodes' = [nodes EXCEPT
                 ![parent].subdirs = Append(@, child),
                 ![parent].total_size = @ + nodes[child].total_size,
                 ![parent].dir_count = @ + 1]
  /\ result' = [result EXCEPT !.all_dirs = Append(@, child)]
  /\ dirs_scanned' = dirs_scanned + 1

ReturnDirectory ==
  /\ Running
  /\ Len(stack) > 1
  /\ Top.phase = "returned"
  /\ LET caller == stack[Len(stack) - 1]
     IN  /\ FoldChild(caller.dir, Top.dir)
         /\ stack' = [SubSeq(stack, 1, Len(stack) - 1) EXCEPT
                        ![Len(stack) - 1].idx = @ + 1]
  /\ UNCHANGED << config, others, earlier, interrupted, files_scanned, pc,
                  callbacks, history >>

\* Variant: the root is counted among the directories.
ScanReturnCountsRoot ==
  /\ Running
  /\ Len(stack) = 1
  /\ Top.phase = "returned"
  /\ result' = [result EXCEPT
                  !.total_size = nodes[result.root].total_size,
                  !.total_files = files_scanned,
                  !.total_dirs = dirs_scanned + 1]
  /\ stack' = << >>
  /\ pc' = "returned"
  /\ UNCHANGED << config, others, earlier, interrupted, files_scanned,
                  dirs_scanned, nodes, callbacks, history >>

\* The root's _scan_directory has returned: fill in the totals and return.
ScanReturn ==
  /\ Running
  /\ Len(stack) = 1
  /\ Top.phase = "returned"
  /\ result' = [result EXCEPT
                  !.total_size = nodes[result.root].total_size,
                  !.total_files = files_scanned,
                  !.total_dirs = dirs_scanned]
  /\ stack' = << >>
  /\ pc' = "returned"
  /\ UNCHANGED << config, others, earlier, interrupted, files_scanned,
                  dirs_scanned, nodes, callbacks, history >>

\* ------------------------------------------------------------------------
\* KeyboardInterrupt during the walk.
\* ------------------------------------------------------------------------
\* Variant: the interruption is handled as an OSError on the directory
\* being scanned, and the walk goes on.
InterruptCaught ==
  /\ Running
  /\ Top.phase # "returned"
  /\ interrupted' = TRUE
  /\ ListingFailed(Top.dir, "os", OsMessage(Top.dir))
  /\ UNCHANGED << config, others, earlier, files_scanned, dirs_scanned, pc,
                  listed, visited, skipped, constructed >>

\* KeyboardInterrupt is raised somewhere in the walk.  It is not an OSError:
\* no except clause of _scan_directory or _process_file matches it, so
\* every frame is left, nothing is logged, no callback is made, and scan
\* raises it to its caller.
Interrupt ==
  /\ Running
  /\ interrupted' = TRUE
  /\ stack' = << >>
  /\ pc' = "interrupted"
  /\ UNCHANGED << config, others, earlier, files_scanned, dirs_scanned, nodes,
                  result, callbacks, history >>

Next ==
  \/ ScanRaise
  \/ ScanBegin
  \/ DepthCutoff
  \/ OpenDirectory
  \/ OpenFail
  \/ IterFail
  \/ FinishDirectory
  \/ SkipExcluded
  \/ EntryError
  \/ SkipSymlink
  \/ SkipOther
  \/ ProcessFile
  \/ ProcessDirectory
  \/ ReturnDirectory
  \/ ScanReturn

Spec == Init /\ [][Next]_vars

\* scan runs in the thread of its caller and is not suspended for ever: as
\* long as a statement of the walk is left to execute, one is executed.
SpecFair == Init /\ [][Next]_vars /\ WF_vars(Next)

\* ------------------------------------------------------------------------
\* A second call of scan on the same DiskScanner.
\* ------------------------------------------------------------------------
\* scan has returned: its caller keeps the ScanResult with the objects it
\* refers to, and is about to call scan again for the same path.  The
\* scanner keeps its configuration and its two counters, nothing of the
\* result; the logs of the calls made start again.
CallAgain ==
  /\ pc = "returned"
  /\ earlier = << >>
  /\ earlier' = << [result |-> result, nodes |-> nodes] >>
  /\ result' = NoResult
  /\ nodes' = << >>
  /\ pc' = "ready"
  /\ callbacks' = << >>
  /\ listed' = << >>
  /\ visited' = {}
  /\ skipped' = {}
  /\ raised' = {}
  /\ UNCHANGED << config, others, interrupted, files_scanned, dirs_scanned,
                  stack, constructed >>

NextTwice ==
  \/ Next
  \/ CallAgain

SpecTwice == Init /\ [][NextTwice]_vars

\* The scan with an interruption that may arrive at any step of the walk.
NextInterrupt ==
  \/ Next
  \/ Interrupt

SpecInterrupt == Init /\ [][NextInterrupt]_vars

\* ------------------------------------------------------------------------
\* format_size and parse_size.
\*
\* A string is the sequence of its characters.  A byte count is the
\* sequence of its digits to base 1024, least significant first, without
\* leading zeros: Python integers are unbounded, and 1024^4 is beyond the
\* integers of the model checker.  A byte count below 1024^5 < 2^53 is a
\* float exactly, and so are its quotients by 1024.0.
\* ------------------------------------------------------------------------
Kibi == 1024

RECURSIVE Norm(_)
Norm(d) ==
  IF d # << >> /\ d[Len(d)] = 0 THEN Norm(SubSeq(d, 1, Len(d) - 1)) ELSE d

\* The byte count i, for a small i.
RECURSIVE Bytes(_)
Bytes(i) == IF i = 0 THEN << >> ELSE << i % Kibi >> \o Bytes(i \div Kibi)

Zeros(k) == [i \in 1..k |-> 0]

\* d * 1024 ** k
Scaled(d, k) == IF d = << >> THEN << >> ELSE Zeros(k) \o d

Digit(d, i) == IF i <= Len(d) THEN d[i] ELSE 0

DigitChars == << "0", "1", "2", "3", "4", "5", "6", "7", "8", "9" >>

\* str(i)
RECURSIVE Decimal(_)
Decimal(i) ==
  IF i < 10 THEN << DigitChars[i + 1] >>
  ELSE Decimal(i \div 10) \o << DigitChars[(i % 10) + 1] >>

\* The units format_size goes through.
UNITS ==
  << << "B" >>, << "K", "B" >>, << "M", "B" >>, << "G", "B" >>,
     << "T", "B" >>, << "P", "B" >> >>

\* After j divisions by 1024.0 size holds size / 1024 ** j: its integer
\* part,
RECURSIVE Whole(_, _)
Whole(size, j) ==
  IF Len(size) <= j THEN 0 ELSE size[j + 1] + Kibi * Whole(size, j + 1)

\* and ten times its fractional part, digit by digit: the carry out of
\* digit i and what stays in digit i.
RECURSIVE TenCarry(_, _)
TenCarry(size, i) ==
  IF i = 0 THEN 0 ELSE (Digit(size, i) * 10 + TenCarry(size, i - 1)) \div Kibi

TenRest(size, i) == (Digit(size, i) * 10 + TenCarry(size, i - 1)) % Kibi

\* Rounding to one decimal, ties to the even digit.
RoundsUp(size, j) ==
  /\ j > 0
  /\ \/ 2 * TenRest(size, j) > Kibi
     \/ /\ 2 * TenRest(size, j) = Kibi
        /\ \/ \E i \in 1..(j - 1) : TenRest(size, i) # 0
           \/ TenCarry(size, j) % 2 = 1

Tenths(size, j) == TenCarry(size, j) + (IF RoundsUp(size, j) THEN 1 ELSE 0)

\* f"{size:.1f}"
Fixed1(size, j) ==
  LET t == Tenths(size, j)
      w == Whole(size, j) + (IF t = 10 THEN 1 ELSE 0)
  IN  Decimal(w) \o << "." >> \o Decimal(t % 10)

\* The loop of format_size from its j-th unit on.
RECURSIVE FormatFrom(_, _)
FormatFrom(size, j) ==
  IF j = Len(UNITS) THEN Fixed1(size, j) \o << " ", "E", "B" >>
  ELSE IF Len(size) <= j + 1
         THEN Fixed1(size, j) \o << " " >> \o UNITS[j + 1]
         ELSE FormatFrom(size, j + 1)

format_size(size) == FormatFrom(size, 0)

\* str.strip(), with the blank as the only white space.
RECURSIVE LStrip(_)
LStrip(s) == IF s # << >> /\ Head(s) = " " THEN LStrip(Tail(s)) ELSE s

RECURSIVE RStrip(_)
RStrip(s) ==
  IF s # << >> /\ s[Len(s)] = " " THEN RStrip(SubSeq(s, 1, Len(s) - 1)) ELSE s

Strip(s) == RStrip(LStrip(s))

UpperChar(c) ==
  CASE c = "b" -> "B"
    [] c = "k" -> "K"
    [] c = "m" -> "M"
    [] c = "g" -> "G"
    [] c = "t" -> "T"
    [] OTHER   -> c

\* str.upper()
Upper(s) == [i \in DOMAIN s |-> UpperChar(s[i])]

\* str.endswith(u)
EndsWith(s, u) ==
  Len(u) <= Len(s) /\ SubSeq(s, Len(s) - Len(u) + 1, Len(s)) = u

\* The dictionary of parse_size in its iteration order; the multiplier of
\* a unit is 1024 ** power.
units ==
  << [unit |-> << "B" >>, power |-> 0],
     [unit |-> << "K", "B" >>, power |-> 1],
     [unit |-> << "M", "B" >>, power |-> 2],
     [unit |-> << "G", "B" >>, power |-> 3],
     [unit |-> << "T", "B" >>, power |-> 4] >>

IsDigit(c) == \E i \in DOMAIN DigitChars : DigitChars[i] = c

DigitValue(c) == CHOOSE v \in 0..9 : DigitChars[v + 1] = c

Dots(s) == {i \in DOMAIN s : s[i] = "."}

\* float(s) accepts s: digits with at most one point among them.
FloatLiteral(s) ==
  /\ Cardinality(Dots(Strip(s))) <= 1
  /\ \A i \in DOMAIN Strip(s) \ Dots(Strip(s)) : IsDigit(Strip(s)[i])
  /\ \E i \in DOMAIN Strip(s) : IsDigit(Strip(s)[i])

\* int(s) accepts s: digits only.
IntLiteral(s) ==
  /\ Strip(s) # << >>
  /\ \A i \in DOMAIN Strip(s) : IsDigit(Strip(s)[i])

RECURSIVE DecValue(_)
DecValue(text) ==
  IF text = << >> THEN 0
  ELSE 10 * DecValue(SubSeq(text, 1, Len(text) - 1))
         + DigitValue(text[Len(text)])

RECURSIVE Pow10(_)
Pow10(p) == IF p = 0 THEN 1 ELSE 10 * Pow10(p - 1)

\* The k digits of floor((rem / den) * 1024 ** k), by long division.
RECURSIVE FracDigits(_, _, _)
FracDigits(rem, den, k) ==
  IF k = 0 THEN << >>
  ELSE FracDigits((rem * Kibi) % den, den, k - 1)
         \o << (rem * Kibi) \div den >>

\* int(float(number) * 1024 ** power)
Truncated(number, power) ==
  LET s == Strip(number)
      n == IF Dots(s) = {} THEN Len(s) + 1 ELSE CHOOSE i \in Dots(s) : TRUE
      whole == SubSeq(s, 1, n - 1)
      frac == SubSeq(s, n + 1, Len(s))
  IN  Norm(FracDigits(DecValue(frac), Pow10(Len(frac)), power)
             \o Bytes(DecValue(whole)))

Returns(v) == [raises |-> "None", value |-> v]

ValueError == [raises |-> "ValueError", value |-> << >>]

\* The loop of parse_size from the i-th unit of the dictionary on, and the
\* final int(size_str).
RECURSIVE ParseFrom(_, _)
ParseFrom(size_str, i) ==
  IF i > Len(units)
    THEN IF IntLiteral(size_str)
           THEN Returns(Bytes(DecValue(Strip(size_str))))
           ELSE ValueError
    ELSE IF EndsWith(size_str, units[i].unit)
           THEN LET number ==
                      Strip(SubSeq(size_str, 1,
                                   Len(size_str) - Len(units[i].unit)))
                IN  IF FloatLiteral(number)
                      THEN Returns(Truncated(number, units[i].power))
                      ELSE ValueError
           ELSE ParseFrom(size_str, i + 1)

parse_size(size_str) == ParseFrom(Upper(Strip(size_str)), 1)

\* The byte counts m * 1024 ** k with 1 <= m < 1024 and a unit of
\* parse_size for 1024 ** k.
ExactMultiples ==
  {Zeros(k) \o << m >> : m \in 1..(Kibi - 1), k \in 0..(Len(units) - 1)}

\* Byte counts given to format_size: the exact multiples, 0, 1.5 KB, the
\* ties 1.25 KB and 1.75 KB, a count that rounds up to 1024.0, 1 PB and
\* 1 EB.
ByteCounts ==
  ExactMultiples
  \cup { << >>, << 512, 1 >>, << 256, 1 >>, << 768, 1 >>, << 1023, 1023 >>,
         << 1, 0, 1 >>, Scaled(<< 1 >>, 5), Scaled(<< 1 >>, 6) }

\* Strings given to parse_size: a number, alone or followed by a unit with
\* or without a blank between, and some other strings.
SizeStrings ==
  {Decimal(n) : n \in 0..MaxNumber}
  \cup {Decimal(n) \o sep \o units[i].unit :
          n \in 0..MaxNumber, sep \in { << >>, << " " >> },
          i \in DOMAIN units}
  \cup { << "1", ".", "5", "G", "B" >>, << "1", ".", "5", "B" >>,
         << "1", "0", "m", "b" >>, << " ", "7", " " >>, << "1", ".", "5" >>,
         << "2", "0", "4", "8" >>, << "M", "B" >>, << >> }

\* The variables of the scanner.
scanner ==
  << config, files_scanned, dirs_scanned, pc, stack, nodes, result,
     callbacks, history, interrupted, earlier >>

\* format_size(size) is called.
FormatSize ==
  /\ call = NoCall
  /\ \E size \in ByteCounts :
        call' = [fn |-> "format_size", arg |-> size,
                 ret |-> format_size(size), from |-> << >>]
  /\ UNCHANGED << scanner, dup, threads, lock, answer >>

\* parse_size(size_str) is called, as main does for --min-size.
ParseSize ==
  /\ call = NoCall
  /\ \E size_str \in SizeStrings :
        call' = [fn |-> "parse_size", arg |-> size_str,
                 ret |-> parse_size(size_str), from |-> << >>]
  /\ UNCHANGED << scanner, dup, threads, lock, answer >>

\* parse_size is called on what format_size returned.
ParseFormatted ==
  /\ call.fn = "format_size"
  /\ call' = [fn |-> "parse_size", arg |-> call.ret,
              ret |-> parse_size(call.ret), from |-> << call.arg >>]
  /\ UNCHANGED << scanner, dup, threads, lock, answer >>

\* A scanner that is constructed and left alone.
InitSize ==
  /\ fs = EmptyTree
  /\ supplied = {}
  /\ min_size = 0
  /\ max_depth = << >>
  /\ follow_symlinks = FALSE
  /\ Init

NextSize ==
  \/ FormatSize
  \/ ParseSize
  \/ ParseFormatted

SpecSize == InitSize /\ [][NextSize]_vars

\* ------------------------------------------------------------------------
\* The duplicate detector: DuplicateFinder and DuplicateGroup.
\* ------------------------------------------------------------------------
\* main constructs DuplicateFinder(min_size, progress_callback) and calls
\* find_duplicates(result.all_files); main and the reporter read count,
\* files and wasted_size of the groups.  The class itself is described in
\* sections 3, 4.3 and 4.4 of spec.md: three stages (size, partial hash,
\* full hash), a file that fails to hash is dropped, the groups are
\* returned by descending wasted space.
\*
\* A file is a path (a number) with the bytes it holds on disk and the way
\* reading it fails: "None", "open" (no read succeeds) or "late" (the
\* prefix is read, reading the whole file fails).

\* The number of bytes the partial hash reads.
PrefixBytes == 1

\* What the files hold: nothing, one byte, two bytes with the same first
\* byte.
Contents ==
  { << >>, << "x" >>, << "y" >>, << "x", "x" >>, << "x", "y" >> }

ReadFaults == {"None", "open", "late"}

DupMinSizes == {0, 1, 2}

\* The files on disk: each path with what it holds; at most one of them
\* fails to be read.
Disks ==
  UNION {{disk \in [1..n -> [content : Contents, fault : ReadFaults]] :
            Cardinality({p \in 1..n : disk[p].fault # "None"}) <= 1} :
         n \in 0..MaxFiles}

\* The FileEntry of a path, as a scan of the disk records it.
FileEntry(disk, p) == [path |-> p, size |-> Len(disk[p].content)]

\* The flat file list of a scan of the disk.
FileList(disk) == [p \in DOMAIN disk |-> FileEntry(disk, p)]

ByteValue(b) == IF b = "x" THEN 1 ELSE 2

\* The hash algorithm: deterministic, and no two byte strings share a
\* value (the bytes are the digits of a bijective base-3 numeral).
RECURSIVE Hash(_)
Hash(bytes) ==
  IF bytes = << >> THEN 0 ELSE ByteValue(Head(bytes)) + 3 * Hash(Tail(bytes))

IoError == [error |-> "ioError"]

HashOf(h) == [hash |-> h]

Failed(outcome) == outcome = IoError

\* partialHash(file, prefixBytes): the hash of at most prefixBytes leading
\* bytes, or the failure.
partialHash(file, prefixBytes) ==
  LET on_disk == dup.disk[file.path]
      n == IF Len(on_disk.content) < prefixBytes
             THEN Len(on_disk.content) ELSE prefixBytes
  IN  IF on_disk.fault = "open"
        THEN IoError
        ELSE HashOf(Hash(SubSeq(on_disk.content, 1, n)))

\* Variant: the full hash reads the prefix only.
fullHashOfPrefix(file) ==
  LET on_disk == dup.disk[file.path]
      n == IF Len(on_disk.content) < PrefixBytes
             THEN Len(on_disk.content) ELSE PrefixBytes
  IN  IF on_disk.fault # "None"
        THEN IoError
        ELSE HashOf(Hash(SubSeq(on_disk.content, 1, n)))

\* Variant: a read failure is not surfaced, the bytes are hashed anyway.
fullHashUnchecked(file) == HashOf(Hash(dup.disk[file.path].content))

\* fullHash(file): the hash of the whole content, or the failure.
fullHash(file) ==
  LET on_disk == dup.disk[file.path]
  IN  IF on_disk.fault # "None"
        THEN IoError
        ELSE HashOf(Hash(on_disk.content))

\* One more file in the groups of a partition: into the group of its key,
\* or into a new group after the others.
Keyed(groups, key, file) ==
  IF \E i \in DOMAIN groups : groups[i].key = key
    THEN [i \in DOMAIN groups |->
            IF groups[i].key = key
              THEN [groups[i] EXCEPT !.files = Append(@, file)]
              ELSE groups[i]]
    ELSE Append(groups, [key |-> key, files |-> << file >>])

\* The partition of a list of (key, file) pairs by key.
RECURSIVE Partition(_)
Partition(pairs) ==
  IF pairs = << >>
    THEN << >>
    ELSE LET n == Len(pairs)
         IN  Keyed(Partition(SubSeq(pairs, 1, n - 1)),
                   pairs[n].key, pairs[n].file)

\* Variant: a group of one file survives the stage.
SurvivingAll(groups) == groups

\* A group of size 1 is discarded.
Surviving(groups) == SelectSeq(groups, LAMBDA g : Len(g.files) >= 2)

RECURSIVE Concat(_)
Concat(lists) ==
  IF lists = << >> THEN << >> ELSE Head(lists) \o Concat(Tail(lists))

\* Variant: no file is left out for its size.
ConsideredAll(files, minimum) == files

\* The files of the minimum size or more.
Considered(files, minimum) ==
  SelectSeq(files, LAMBDA f : f.size >= minimum)

\* Stage 1: the files considered, partitioned by exact byte size.
SizeGrouping(files, minimum) ==
  LET kept == Considered(files, minimum)
  IN  Surviving(Partition([i \in DOMAIN kept |->
                             [key |-> kept[i].size, file |-> kept[i]]]))

\* What the hash of a stage yields for a file.
Outcome(stage, file) ==
  IF stage = "partial_hash"
    THEN partialHash(file, PrefixBytes) ELSE fullHash(file)

\* The files of a group that were hashed.
Hashed(files, stage) ==
  SelectSeq(files, LAMBDA f : ~Failed(Outcome(stage, f)))

\* The groups of one group, re-partitioned by the hash of a stage.
Regrouped(group, stage) ==
  LET kept == Hashed(group.files, stage)
  IN  Surviving(Partition([i \in DOMAIN kept |->
                             [key |-> Outcome(stage, kept[i]),
                              file |-> kept[i]]]))

\* Stage 2: within each surviving size group, by partial hash.
PartialHashGrouping(groups) ==
  Concat([i \in DOMAIN groups |-> Regrouped(groups[i], "partial_hash")])

\* A DuplicateGroup: the full hash, the common size, the members and the
\* wasted space.
DuplicateGroup(hash, files) ==
  [hash |-> hash, size |-> files[1].size, files |-> files,
   wasted_size |-> files[1].size * (Len(files) - 1)]

\* DuplicateGroup.count
Count(group) == Len(group.files)

\* Stage 3: within each surviving subgroup, by full hash; the subgroups of
\* 2 or more members are the groups emitted.
FullHashGrouping(groups) ==
  LET emitted == Concat([i \in DOMAIN groups |->
                           Regrouped(groups[i], "full_hash")])
  IN  [i \in DOMAIN emitted |->
         DuplicateGroup(emitted[i].key.hash, emitted[i].files)]

\* Variant: the groups are returned in the order they were formed.
Unsorted(groups) == groups

\* The groups by descending wasted space; groups of equal wasted space keep
\* their order.
RECURSIVE ByWasted(_)
ByWasted(groups) ==
  IF groups = << >>
    THEN << >>
    ELSE LET n == Len(groups)
             g == groups[n]
             before == ByWasted(SubSeq(groups, 1, n - 1))
             k == Cardinality({i \in DOMAIN before :
                                 before[i].wasted_size >= g.wasted_size})
         IN  SubSeq(before, 1, k) \o << g >>
               \o SubSeq(before, k + 1, Len(before))

\* findDuplicates(files, config) as one function of its input, on the disk
\* of the run.
findDuplicates(files, minimum) ==
  ByWasted(FullHashGrouping(PartialHashGrouping(
              SizeGrouping(files, minimum))))

\* The variables the detector leaves alone.
undetected ==
  << config, files_scanned, dirs_scanned, pc, stack, nodes, result,
     callbacks, history, interrupted, earlier, call, threads, lock,
     answer >>

\* What the progress observer is told at the end of a stage.
dup_progress(groups, stage) ==
  LET n == Len(Concat([i \in DOMAIN groups |-> groups[i].files]))
  IN  << n, n, stage >>

\* main constructs the finder for the file list of a scan.
DupConstruct ==
  /\ dup = NoDetection
  /\ \E disk \in Disks, minimum \in DupMinSizes :
        dup' = [pc |-> "constructed", disk |-> disk, files |-> FileList(disk),
                min_size |-> minimum, candidates |-> << >>,
                groups |-> << >>, progress |-> << >>]
  /\ UNCHANGED undetected

\* find_duplicates is called: stage 1.
DupSizeStage ==
  /\ dup.pc = "constructed"
  /\ LET groups == SizeGrouping(dup.files, dup.min_size)
     IN  dup' = [dup EXCEPT
                   !.pc = "sized",
                   !.candidates = groups,
                   !.progress = Append(@, dup_progress(groups, "size_group"))]
  /\ UNCHANGED undetected

\* Stage 2.
DupPartialStage ==
  /\ dup.pc = "sized"
  /\ LET groups == PartialHashGrouping(dup.candidates)
     IN  dup' = [dup EXCEPT
                   !.pc = "hashed",
                   !.candidates = groups,
                   !.progress = Append(@, dup_progress(groups, "partial_hash"))]
  /\ UNCHANGED undetected

\* Stage 3, and find_duplicates returns the groups in order.
DupFullStage ==
  /\ dup.pc = "hashed"
  /\ LET groups == FullHashGrouping(dup.candidates)
     IN  dup' = [dup EXCEPT
                   !.pc = "returned",
                   !.candidates = << >>,
                   !.groups = ByWasted(groups),
                   !.progress = Append(@, dup_progress(groups, "full_hash"))]
  /\ UNCHANGED undetected

NextDup ==
  \/ DupConstruct
  \/ DupSizeStage
  \/ DupPartialStage
  \/ DupFullStage

SpecDup == InitSize /\ [][NextDup]_vars

\* ------------------------------------------------------------------------
\* Threads on one DiskScanner.
\* ------------------------------------------------------------------------
\* _files_scanned, _dirs_scanned and _lock are fields of the scanner, not
\* of a call of scan.  For the threads that use one scanner the walk is
\* taken as the sequence of files and directories it records; of a record
\* the steps on the shared fields are kept: the append to the flat list of
\* the result, the acquisition of the lock, the load and the store of
\* `+= 1`, and the release.  A flat list is kept as its length.

Threads == {1, 2}

RecordKinds == {"file", "dir"}

\* What a walk records, in order.
Workloads == UNION {[1..n -> RecordKinds] : n \in 0..MaxRecords}

Thread(at, work) ==
  [pc |-> at, work |-> work, loaded |-> 0, all_files |-> 0, all_dirs |-> 0,
   total_files |-> 0, total_dirs |-> 0]

\* The variables no thread step assigns.
unthreaded ==
  << config, pc, stack, nodes, result, callbacks, history, interrupted,
     earlier, call, dup, answer >>

Recording(t) == Head(threads[t].work)

\* result.all_files.append(file_info), result.all_dirs.append(subdir_info)
AppendRecord(t) ==
  /\ threads[t].pc = "walk"
  /\ threads[t].work # << >>
  /\ threads' = [threads EXCEPT
                   ![t].pc = "acquire",
                   ![t].all_files =
                     IF Recording(t) = "file" THEN @ + 1 ELSE @,
                   ![t].all_dirs =
                     IF Recording(t) = "dir" THEN @ + 1 ELSE @]
  /\ UNCHANGED << unthreaded, files_scanned, dirs_scanned, lock >>

\* Variant: the with statement is left out, the thread goes on without the
\* lock.
AcquireNothing(t) ==
  /\ threads[t].pc = "acquire"
  /\ threads' = [threads EXCEPT ![t].pc = "load"]
  /\ UNCHANGED << unthreaded, files_scanned, dirs_scanned, lock >>

\* with self._lock: the thread waits until the lock is free and takes it.
AcquireLock(t) ==
  /\ threads[t].pc = "acquire"
  /\ lock = Unlocked
  /\ lock' = t
  /\ threads' = [threads EXCEPT ![t].pc = "load"]
  /\ UNCHANGED << unthreaded, files_scanned, dirs_scanned >>

\* `+= 1` reads the counter ...
LoadCounter(t) ==
  /\ threads[t].pc = "load"
  /\ threads' = [threads EXCEPT
                   ![t].pc = "store",
                   ![t].loaded =
                     IF Recording(t) = "file"
                       THEN files_scanned ELSE dirs_scanned]
  /\ UNCHANGED << unthreaded, files_scanned, dirs_scanned, lock >>

\* ... and assigns one more than it read.
StoreCounter(t) ==
  /\ threads[t].pc = "store"
  /\ IF Recording(t) = "file"
       THEN /\ files_scanned' = threads[t].loaded + 1
            /\ UNCHANGED dirs_scanned
       ELSE /\ dirs_scanned' = threads[t].loaded + 1
            /\ UNCHANGED files_scanned
  /\ threads' = [threads EXCEPT ![t].pc = "release", ![t].loaded = 0]
  /\ UNCHANGED << unthreaded, lock >>

\* The with statement is left, and the walk goes on.
ReleaseLock(t) ==
  /\ threads[t].pc = "release"
  /\ lock' = Unlocked
  /\ threads' = [threads EXCEPT ![t].pc = "walk", ![t].work = Tail(@)]
  /\ UNCHANGED << unthreaded, files_scanned, dirs_scanned >>

\* The threads record the files and directories of one walk between them.
StartWorkers ==
  /\ threads = NoThreads
  /\ threads' \in [Threads -> {Thread("walk", w) : w \in Workloads}]
  /\ UNCHANGED << unthreaded, files_scanned, dirs_scanned, lock >>

NextWorkers ==
  \/ StartWorkers
  \/ \E t \in DOMAIN threads : AppendRecord(t)
  \/ \E t \in DOMAIN threads : AcquireLock(t)
  \/ \E t \in DOMAIN threads : LoadCounter(t)
  \/ \E t \in DOMAIN threads : StoreCounter(t)
  \/ \E t \in DOMAIN threads : ReleaseLock(t)

SpecWorkers == InitSize /\ [][NextWorkers]_vars

\* scan is entered: the ScanResult of the call is constructed.
ScanEnter(t) ==
  /\ threads[t].pc = "call"
  /\ threads' = [threads EXCEPT
                   ![t].pc = "reset_files",
                   ![t].all_files = 0,
                   ![t].all_dirs = 0]
  /\ UNCHANGED << unthreaded, files_scanned, dirs_scanned, lock >>

\* self._files_scanned = 0
ResetFiles(t) ==
  /\ threads[t].pc = "reset_files"
  /\ files_scanned' = 0
  /\ threads' = [threads EXCEPT ![t].pc = "reset_dirs"]
  /\ UNCHANGED << unthreaded, dirs_scanned, lock >>

\* self._dirs_scanned = 0
ResetDirs(t) ==
  /\ threads[t].pc = "reset_dirs"
  /\ dirs_scanned' = 0
  /\ threads' = [threads EXCEPT ![t].pc = "walk"]
  /\ UNCHANGED << unthreaded, files_scanned, lock >>

\* The walk is over: result.total_files = self._files_scanned
ReadFiles(t) ==
  /\ threads[t].pc = "walk"
  /\ threads[t].work = << >>
  /\ threads' = [threads EXCEPT
                   ![t].pc = "read_dirs",
                   ![t].total_files = files_scanned]
  /\ UNCHANGED << unthreaded, files_scanned, dirs_scanned, lock >>

\* result.total_dirs = self._dirs_scanned, and scan returns.
ReadDirs(t) ==
  /\ threads[t].pc = "read_dirs"
  /\ threads' = [threads EXCEPT
                   ![t].pc = "returned",
                   ![t].total_dirs = dirs_scanned]
  /\ UNCHANGED << unthreaded, files_scanned, dirs_scanned, lock >>

\* Each thread calls scan on the same scanner.
StartScans ==
  /\ threads = NoThreads
  /\ threads' \in [Threads -> {Thread("call", w) : w \in Workloads}]
  /\ UNCHANGED << unthreaded, files_scanned, dirs_scanned, lock >>

NextOverlap ==
  \/ StartScans
  \/ \E t \in DOMAIN threads : ScanEnter(t)
  \/ \E t \in DOMAIN threads : ResetFiles(t)
  \/ \E t \in DOMAIN threads : ResetDirs(t)
  \/ \E t \in DOMAIN threads : AppendRecord(t)
  \/ \E t \in DOMAIN threads : AcquireLock(t)
  \/ \E t \in DOMAIN threads : LoadCounter(t)
  \/ \E t \in DOMAIN threads : StoreCounter(t)
  \/ \E t \in DOMAIN threads : ReleaseLock(t)
  \/ \E t \in DOMAIN threads : ReadFiles(t)
  \/ \E t \in DOMAIN threads : ReadDirs(t)

SpecOverlap == InitSize /\ [][NextOverlap]_vars

\* ------------------------------------------------------------------------
\* SpaceAnalyzer.
\* ------------------------------------------------------------------------
\* A SpaceAnalyzer keeps the ScanResult it is constructed with and answers
\* from it.  sorted(...), slices, list displays and comprehensions make new
\* lists; list.sort() changes the list it is called on.

\* sorted(list, key=..., reverse=True), keys[i] being the key of list[i]:
\* a new list, the larger key first, equal keys in the order they had.
Descending(list, keys) ==
  LET place(i) ==
        1 + Cardinality({j \in DOMAIN list :
                           \/ keys[j] > keys[i]
                           \/ keys[j] = keys[i] /\ j < i})
  IN  [k \in DOMAIN list |-> list[CHOOSE i \in DOMAIN list : place(i) = k]]

\* list[:n]
Slice(list, n) == SubSeq(list, 1, IF n < Len(list) THEN n ELSE Len(list))

\* FileInfo.extension: no name of the model has a suffix, so every file has
\* the marker of a missing extension.
Extension(file) == "(none)"

\* DirInfo.name
DirName(d) == SlotName(nodes[d].path)

\* format_size of a small number.
Formatted(n) == format_size(Bytes(n))

\* What `+= file.size` adds up over a list of files.
RECURSIVE Accumulated(_)
Accumulated(files) ==
  IF files = << >> THEN 0 ELSE Head(files).size + Accumulated(Tail(files))

get_top_directories(n) ==
  LET all_dirs == << result.root >> \o result.all_dirs
      sorted_dirs ==
        Descending(all_dirs,
                   [i \in DOMAIN all_dirs |-> nodes[all_dirs[i]].total_size])
  IN  Slice(sorted_dirs, n)

get_top_files(n) ==
  Slice(Descending(result.all_files,
                   [i \in DOMAIN result.all_files |->
                      result.all_files[i].size]), n)

\* The extensions of a list of files, each once, in the order they come.
RECURSIVE Extensions(_)
Extensions(files) ==
  IF files = << >>
    THEN << >>
    ELSE LET before == Extensions(SubSeq(files, 1, Len(files) - 1))
             ext == Extension(files[Len(files)])
         IN  IF \E i \in DOMAIN before : before[i] = ext
               THEN before ELSE Append(before, ext)

get_extension_stats ==
  LET exts == Extensions(result.all_files)
      of(ext) == SelectSeq(result.all_files, LAMBDA f : Extension(f) = ext)
      stats == [i \in DOMAIN exts |->
                  [extension |-> exts[i],
                   total_size |-> Accumulated(of(exts[i])),
                   file_count |-> Len(of(exts[i]))]]
  IN  Descending(stats, [i \in DOMAIN stats |-> stats[i].total_size])

RECURSIVE build_tree(_, _, _)
build_tree(dir_info, current_depth, max) ==
  LET subdirs == nodes[dir_info].subdirs
      sorted_subdirs ==
        Descending(subdirs,
                   [i \in DOMAIN subdirs |-> nodes[subdirs[i]].total_size])
  IN  [name |-> DirName(dir_info),
       path |-> nodes[dir_info].path,
       size |-> nodes[dir_info].total_size,
       formatted_size |-> Formatted(nodes[dir_info].total_size),
       file_count |-> nodes[dir_info].file_count,
       children |->
         IF current_depth < max
           THEN [i \in DOMAIN sorted_subdirs |->
                   build_tree(sorted_subdirs[i], current_depth + 1, max)]
           ELSE << >>]

get_directory_tree(max) == build_tree(result.root, 0, max)

get_summary ==
  [root_path |-> nodes[result.root].path,
   total_size |-> result.total_size,
   formatted_size |-> Formatted(result.total_size),
   total_files |-> result.total_files,
   total_dirs |-> result.total_dirs,
   errors_count |-> Len(result.errors)]

\* The ranges of get_size_distribution; the last has no upper end.
ranges ==
  << [name |-> "<1 KB", min_size |-> 0, max_size |-> << 1024 >>],
     [name |-> "1 KB - 100 KB", min_size |-> 1024,
      max_size |-> << 100 * 1024 >>],
     [name |-> "100 KB - 1 MB", min_size |-> 100 * 1024,
      max_size |-> << 1024 * 1024 >>],
     [name |-> "1 MB - 10 MB", min_size |-> 1024 * 1024,
      max_size |-> << 10 * 1024 * 1024 >>],
     [name |-> "10 MB - 100 MB", min_size |-> 10 * 1024 * 1024,
      max_size |-> << 100 * 1024 * 1024 >>],
     [name |-> "100 MB - 1 GB", min_size |-> 100 * 1024 * 1024,
      max_size |-> << 1024 * 1024 * 1024 >>],
     [name |-> ">1 GB", min_size |-> 1024 * 1024 * 1024,
      max_size |-> << >>] >>

InRange(r, size) ==
  r.min_size <= size /\ (r.max_size = << >> \/ size < r.max_size[1])

get_size_distribution ==
  LET of(r) == SelectSeq(result.all_files,
                         LAMBDA f : InRange(ranges[r], f.size))
  IN  [r \in DOMAIN ranges |->
         [name |-> ranges[r].name,
          count |-> Len(of(r)),
          total_size |-> Accumulated(of(r))]]

\* The loop of build_treemap_node over the sorted subdirectories: the
\* children kept, given those kept so far.
RECURSIVE TreemapChildren(_, _, _)
TreemapChildren(sorted, total, children) ==
  IF sorted = << >> \/ Len(children) >= 15
    THEN children
    ELSE LET subdir == Head(sorted)
             kept == IF \/ 100 * nodes[subdir].total_size >= total
                        \/ Len(children) < 5
                       THEN Append(children, subdir) ELSE children
         IN  TreemapChildren(Tail(sorted), total, kept)

RECURSIVE build_treemap_node(_, _, _)
build_treemap_node(dir_info, current_depth, max) ==
  LET node == [name |-> DirName(dir_info),
               value |-> nodes[dir_info].total_size,
               path |-> nodes[dir_info].path]
      subdirs == nodes[dir_info].subdirs
      sorted_subdirs ==
        Descending(subdirs,
                   [i \in DOMAIN subdirs |-> nodes[subdirs[i]].total_size])
      children ==
        IF current_depth < max /\ nodes[dir_info].subdirs # << >>
          THEN TreemapChildren(sorted_subdirs,
                               nodes[dir_info].total_size, << >>)
          ELSE << >>
  IN  IF children # << >>
        THEN [name |-> node.name, value |-> node.value, path |-> node.path,
              children |->
                [i \in DOMAIN children |->
                   build_treemap_node(children[i], current_depth + 1, max)]]
        ELSE node

get_treemap_data(max) == build_treemap_node(result.root, 0, max)

\* The lists get_old_files works on: the flat file list of the ScanResult
\* and the list it binds to old_files.
OldFilesLists(old) ==
  [all_files |-> result.all_files,
   old_files |-> SelectSeq(result.all_files, LAMBDA f : f.id \in old)]

\* list.sort(key=lambda f: f.size, reverse=True) on the list of a name.
SortBySize(lists, name) ==
  [lists EXCEPT ![name] = Descending(@, [i \in DOMAIN @ |-> @[i].size])]

\* Variant: old_files is bound to the flat file list itself when every
\* file is old.
OldFilesSortedAliased(old) ==
  IF \A i \in DOMAIN result.all_files : result.all_files[i].id \in old
    THEN LET lists == SortBySize(OldFilesLists(old), "all_files")
         IN  [lists EXCEPT !.old_files = lists.all_files]
    ELSE SortBySize(OldFilesLists(old), "old_files")

\* The lists after old_files.sort(...).
OldFilesSorted(old) == SortBySize(OldFilesLists(old), "old_files")

\* The arguments the methods are called with.
Counts == {1, 20}

Depths == {0, 3}

\* The variables a SpaceAnalyzer has no reference to.
unanalyzed ==
  << config, files_scanned, dirs_scanned, pc, stack, callbacks, history,
     interrupted, earlier, call, dup, threads, lock >>

Answer(fn, arg, value) == [fn |-> fn, arg |-> arg, value |-> value]

GetTopDirectories ==
  /\ pc = "returned"
  /\ \E n \in Counts :
        answer' = Answer("get_top_directories", n, get_top_directories(n))
  /\ UNCHANGED << unanalyzed, nodes, result >>

GetTopFiles ==
  /\ pc = "returned"
  /\ \E n \in Counts : answer' = Answer("get_top_files", n, get_top_files(n))
  /\ UNCHANGED << unanalyzed, nodes, result >>

GetExtensionStats ==
  /\ pc = "returned"
  /\ answer' = Answer("get_extension_stats", 0, get_extension_stats)
  /\ UNCHANGED << unanalyzed, nodes, result >>

GetDirectoryTree ==
  /\ pc = "returned"
  /\ \E max \in Depths :
        answer' = Answer("get_directory_tree", max, get_directory_tree(max))
  /\ UNCHANGED << unanalyzed, nodes, result >>

GetSummary ==
  /\ pc = "returned"
  /\ answer' = Answer("get_summary", 0, get_summary)
  /\ UNCHANGED << unanalyzed, nodes, result >>

GetSizeDistribution ==
  /\ pc = "returned"
  /\ answer' = Answer("get_size_distribution", 0, get_size_distribution)
  /\ UNCHANGED << unanalyzed, nodes, result >>

GetTreemapData ==
  /\ pc = "returned"
  /\ \E max \in Depths :
        answer' = Answer("get_treemap_data", max, get_treemap_data(max))
  /\ UNCHANGED << unanalyzed, nodes, result >>

\* get_old_files(days, n): the files older than the threshold are any of
\* the files; the flat file list is afterwards what the calls left of it.
GetOldFiles ==
  /\ pc = "returned"
  /\ \E old \in SUBSET (1..constructed), n \in Counts :
        LET lists == OldFilesSorted(old)
        IN  /\ answer' = Answer("get_old_files", n, Slice(lists.old_files, n))
            /\ result' = [result EXCEPT !.all_files = lists.all_files]
  /\ UNCHANGED << unanalyzed, nodes >>

NextAnalyze ==
  \/ Next
  \/ GetTopDirectories
  \/ GetTopFiles
  \/ GetExtensionStats
  \/ GetDirectoryTree
  \/ GetSummary
  \/ GetSizeDistribution
  \/ GetTreemapData
  \/ GetOldFiles

SpecAnalyze == Init /\ [][NextAnalyze]_vars

\* ------------------------------------------------------------------------
\* Properties.
\* ------------------------------------------------------------------------
Range(seq) == {seq[i] : i \in DOMAIN seq}

RECURSIVE SumSizes(_)
SumSizes(files) ==
  IF files = << >> THEN 0 ELSE Head(files).size + SumSizes(Tail(files))

RECURSIVE SumTotals(_)
SumTotals(children) ==
  IF children = << >> THEN 0
  ELSE nodes[Head(children)].total_size + SumTotals(Tail(children))

\* The DirInfo objects reachable from d through the subdirs maps.
RECURSIVE Reach(_)
Reach(d) == {d} \cup UNION {Reach(c) : c \in Range(nodes[d].subdirs)}

Returned == pc = "returned"

TreeNodes == Reach(result.root)

\* C1: in a returned ScanResult every node of the tree, the root included,
\* has total_size = the sizes of its own files + the total_size of the
\* nodes in its subdirs map.
C1_TotalSizeIsSum ==
  Returned =>
    \A d \in TreeNodes :
      nodes[d].total_size =
        SumSizes(nodes[d].files) + SumTotals(nodes[d].subdirs)

\* A returned three-level tree with files at its top and bottom levels,
\* after a failure.
C1_Witness ==
  /\ Returned
  /\ raised # {}
  /\ TreeNodes = {Root, S, D}
  /\ Len(nodes[Root].files) > 0
  /\ Len(nodes[D].files) > 0

RECURSIVE SizeSum(_, _)
SizeSum(t, P) ==
  IF P = {} THEN 0
  ELSE LET p == CHOOSE q \in P : TRUE
       IN  t[p].size + SizeSum(t, P \ {p})

Ancestors(p) == {SubSeq(p, 1, n) : n \in 1..(Len(p) - 1)}

\* The regular files of the tree: not symbolic links, and not reached
\* through one.
RegularFiles(t) ==
  {p \in Slots \ {Root} :
     /\ t[p].kind = "file" /\ ~t[p].link
     /\ \A q \in Ancestors(p) : t[q].kind = "dir" /\ ~t[q].link}

NoFaults(t) == \A p \in Slots : t[p].fault = "none"

Unfiltered ==
  /\ supplied = {}
  /\ max_depth = << >>
  /\ min_size = 0
  /\ NoFaults(fs)

\* Some built-in exclusion pattern occurs in the path of an entry.
HitsDefault(p) ==
  \E pattern \in DEFAULT_EXCLUDES : IsSubstring(pattern, PathStr(p))

\* C2 as stated: with no patterns supplied, no depth limit, minimum size 0
\* and no access failure, root.total_size is the sum of the sizes of all
\* regular files of the tree.
C2_Original ==
  (Returned /\ Unfiltered) =>
    nodes[result.root].total_size = SizeSum(fs, RegularFiles(fs))

\* C2, amended: the same, provided that follow-symlinks is off and no
\* entry's path contains a built-in default exclusion pattern.
C2_UnfilteredTotal ==
  (/\ Returned
   /\ Unfiltered
   /\ ~follow_symlinks
   /\ \A p \in Present(fs) \ {Root} : ~HitsDefault(p)) =>
    nodes[result.root].total_size = SizeSum(fs, RegularFiles(fs))

\* root/a 1, root/s/b 2, root/s/d/c 2: the total is 5.
C2_Witness ==
  /\ Returned
  /\ Unfiltered
  /\ ~follow_symlinks
  /\ Present(fs) = {Root, S, A, B, D, C}
  /\ \A p \in Slots : ~fs[p].link
  /\ fs[A].size = 1 /\ fs[B].size = 2 /\ fs[C].size = 2
  /\ nodes[result.root].total_size = 5

\* C3: when the root does not exist or is not a directory, scan raises at
\* once: no ScanResult or DirInfo is built and no directory is listed.
C3_PreconditionFailure ==
  fs[Root].kind # "dir" =>
    /\ pc \in {"ready", "raised"}
    /\ result = NoResult
    /\ nodes = << >>
    /\ listed = << >>

\* scan has raised on a root that exists but is a regular file.
C3_Witness == pc = "raised" /\ fs[Root].kind = "file"

Logged(p) == \E i \in DOMAIN result.errors : result.errors[i].path = p

\* C4: once the precondition has passed scan returns a ScanResult, and
\* every error raised while listing a directory or while classifying or
\* stat-ing an entry is in the result's error log.
C4_EveryErrorLogged ==
  /\ RootAccepted => pc # "raised"
  /\ Returned => \A p \in raised : Logged(p)

EntryFaults == {"classify_perm", "classify_os", "stat"}

Siblings(p) == Range(Entries(Parent(p))) \ {p}

InResult(p) ==
  \/ p \in DOMAIN nodes
  \/ p \in Range(result.all_dirs)
  \/ \E f \in Range(result.all_files) : f.path = p
  \/ \E d \in DOMAIN nodes :
        \/ p \in Range(nodes[d].subdirs)
        \/ \E f \in Range(nodes[d].files) : f.path = p

\* C5: when classifying or stat-ing an entry fails, a message naming the
\* entry is in the error log, the entry is not in the result, and all its
\* siblings have been processed.
C5_EntryFailure ==
  Returned =>
    \A e \in raised :
      fs[e].fault \in EntryFaults =>
        /\ Logged(e)
        /\ ~InResult(e)
        /\ Siblings(e) \subseteq visited

\* os.scandir or its iterator raised on directory d.
ListingFailure(d) == d \in raised /\ d \in Range(listed)

\* os.scandir itself raised: no entry of d was yielded.
OpenFailure(d) ==
  ListingFailure(d) /\ fs[d].fault \in {"open_perm", "open_os"}

FailedNodeKept(d) ==
  /\ d \in Range(nodes[Parent(d)].subdirs)
  /\ d \in Range(result.all_dirs)
  /\ nodes[d].error # "None"
  /\ Logged(d)
  /\ Siblings(d) \subseteq visited

\* C6 as stated: a non-root directory whose listing fails stays in its
\* parent's child map and in the flat directory list, carries an error
\* marker, has total_size 0, has a message in the log, and its siblings
\* are still processed.
C6_Original ==
  Returned =>
    \A d \in Slots \ {Root} :
      ListingFailure(d) => FailedNodeKept(d) /\ nodes[d].total_size = 0

\* C6, amended: the same, with total_size 0 when the directory could not
\* be opened; when the listing fails after entries were yielded, the
\* node keeps what was recorded before the failure.
C6_ListingFailure ==
  Returned =>
    \A d \in Slots \ {Root} :
      /\ ListingFailure(d) => FailedNodeKept(d)
      /\ OpenFailure(d) => nodes[d].total_size = 0

\* s holds a file but cannot be opened; its sibling a is recorded after it.
C6_Witness ==
  /\ Returned
  /\ OpenFailure(S)
  /\ fs[B].kind = "file"
  /\ nodes[S].total_size = 0
  /\ Len(nodes[Root].files) = 1

\* The union of the built-in set and the caller-supplied patterns.
EffectiveSet == DEFAULT_EXCLUDES \cup supplied

SpecExcluded(p) ==
  \/ SlotName(p) \in EffectiveSet
  \/ \E pattern \in EffectiveSet : IsSubstring(pattern, PathStr(p))

\* C7: an entry is skipped as excluded iff its base name is in the
\* effective exclusion set or a pattern of that set occurs in its path.
C7_ExclusionRule ==
  \A e \in visited : e \in skipped <=> SpecExcluded(e)

\* .vol is skipped by the built-in set, s by the substring "/s" that is
\* no entry's name, and a is not skipped.
C7_Witness ==
  /\ supplied = { << "/", "s" >> }
  /\ {S, V} \subseteq skipped
  /\ A \in visited \ skipped

\* C8: no listing is ever issued on a directory that matches the
\* exclusion check, nor on anything beneath it.
C8_ExcludedNeverListed ==
  \A e \in Slots \ {Root} :
    (fs[e].kind = "dir" /\ SpecExcluded(e)) =>
      \A q \in Range(listed) : ~IsUnder(q, e)

\* s is excluded while it holds directory d on disk, and the scan is over.
C8_Witness ==
  /\ Returned
  /\ S \in skipped
  /\ fs[S].kind = "dir" /\ fs[D].kind = "dir" /\ fs[C].kind = "file"
  /\ Range(listed) = {Root}

\* What a scan records on tree t, entry by entry.
RECURSIVE Yielded(_, _), Kept(_, _), NodeOf(_, _), ListedIn(_, _)

\* The parent's listing yields p (it did not fail at or before p).
Yielded(t, p) ==
  /\ p # Root
  /\ t[p].kind # "none"
  /\ ListedIn(t, Parent(p))
  /\ \A i \in 1..p[Len(p)] :
        LET q == Parent(p) \o << i >>
        IN  q \in Slots => t[q].fault # "readdir"

\* p is neither excluded, nor a skipped link, nor unclassifiable.
Kept(t, p) ==
  /\ Yielded(t, p)
  /\ ~SpecExcluded(p)
  /\ t[p].fault \notin {"classify_perm", "classify_os"}
  /\ ~(t[p].link /\ ~follow_symlinks)

\* p gets a DirInfo.
NodeOf(t, p) == p = Root \/ (Kept(t, p) /\ t[p].kind = "dir")

\* p is within the depth limit and is opened.
ListedIn(t, p) ==
  /\ NodeOf(t, p)
  /\ \A i \in DOMAIN max_depth : Len(p) <= max_depth[i]
  /\ t[p].fault \notin {"open_perm", "open_os"}

\* p gets a FileInfo.
FileOf(t, p) ==
  /\ Kept(t, p)
  /\ t[p].kind = "file"
  /\ t[p].fault # "stat"
  /\ t[p].size >= min_size

NodesOf(t) == {p \in Slots : NodeOf(t, p)}
FilesOf(t) == {p \in Slots : FileOf(t, p)}

Paths(files) == {f.path : f \in Range(files)}

\* The ScanResult is the one a scan of tree t gives.
ResultOf(t) ==
  LET files == FilesOf(t)
      dirs == NodesOf(t) \ {Root}
  IN  /\ DOMAIN nodes = dirs \cup {Root}
      /\ Range(result.all_dirs) = dirs
      /\ Len(result.all_dirs) = Cardinality(dirs)
      /\ Paths(result.all_files) = files
      /\ Len(result.all_files) = Cardinality(files)
      /\ \A f \in Range(result.all_files) : f.size = t[f.path].size
      /\ result.total_size = SizeSum(t, files)
      /\ result.total_files = Cardinality(files)
      /\ result.total_dirs = Cardinality(dirs)
      /\ \A d \in DOMAIN nodes :
            /\ Paths(nodes[d].files) = {p \in files : Parent(p) = d}
            /\ Range(nodes[d].subdirs) = {p \in dirs : Parent(p) = d}
            /\ nodes[d].total_size =
                 SizeSum(t, {p \in files : IsUnder(p, d)})
            /\ nodes[d].file_count =
                 Cardinality({p \in files : Parent(p) = d})
            /\ nodes[d].dir_count =
                 Cardinality({p \in dirs : Parent(p) = d})

\* Tree t without directory x and everything beneath it.
Pruned(t, x) == [p \in Slots |-> IF IsUnder(p, x) THEN Absent ELSE t[p]]

ExcludedByName(x) ==
  /\ x # Root
  /\ fs[x].kind = "dir"
  /\ SlotName(x) \in EffectiveSet
  /\ Yielded(fs, x)

\* C9: when a subdirectory is excluded by name, the ScanResult is the one
\* of the same tree without that subdirectory: nothing of its subtree is
\* in any total or count, in the tree, or in the flat lists.
C9_ExcludedSubtreeRemoved ==
  Returned =>
    \A x \in Slots : ExcludedByName(x) => ResultOf(Pruned(fs, x))

\* s/d is excluded by name; it holds file c; its sibling s/b is recorded.
C9_Witness ==
  /\ Returned
  /\ ExcludedByName(D)
  /\ D \in skipped
  /\ fs[C].kind = "file"
  /\ Len(nodes[S].files) = 1
  /\ nodes[Root].total_size = fs[B].size + fs[A].size
  /\ fs[A].kind = "file"

\* The files directly in directory p on disk.
FilesIn(t, p) == {q \in Slots : q # Root /\ Parent(q) = p /\ t[q].kind = "file"}

AllBelowMinimum(p) ==
  /\ FilesIn(fs, p) # {}
  /\ \A q \in FilesIn(fs, p) : fs[q].size < min_size

\* C10: no file smaller than min_size is in a file list, in the flat
\* inventory, or in any total or count; a directory whose files are all
\* smaller is still a node of the tree and of the flat directory list.
C10_MinimumSize ==
  /\ \A d \in DOMAIN nodes :
        \A f \in Range(nodes[d].files) : f.size >= min_size
  /\ pc \in {"scanning", "returned"} =>
        \A f \in Range(result.all_files) : f.size >= min_size
  /\ Returned =>
        /\ LET files == FilesOf(fs)
           IN  /\ \A d \in DOMAIN nodes :
                     /\ nodes[d].total_size =
                          SizeSum(fs, {p \in files : IsUnder(p, d)})
                     /\ nodes[d].file_count =
                          Cardinality({p \in files : Parent(p) = d})
               /\ result.total_size = SizeSum(fs, files)
               /\ result.total_files = Cardinality(files)
        /\ \A p \in Slots \ {Root} :
              (NodeOf(fs, p) /\ AllBelowMinimum(p)) =>
                /\ p \in Range(nodes[Parent(p)].subdirs)
                /\ p \in Range(result.all_dirs)

\* With min_size above 1, s holds only the 1-byte file b: s is a node with
\* no files, while file a of the minimum size is recorded in the root.
C10_Witness ==
  /\ Returned
  /\ min_size = MaxFileSize
  /\ fs[B].kind = "file" /\ fs[B].size = 1 /\ fs[D].kind = "none"
  /\ fs[A].kind = "file" /\ fs[A].size = MaxFileSize
  /\ S \in Range(result.all_dirs)
  /\ nodes[S].files = << >>
  /\ result.total_size = MaxFileSize

\* The directory entries the loop reached the is_dir branch for.
EncounteredDirs == {p \in visited : Classified(p, "dir")}

\* The depth of p is above the configured maximum (the root has depth 0).
BeyondLimit(p) == \E i \in DOMAIN max_depth : Len(p) > max_depth[i]

\* C11: every directory entry encountered is a child node of its parent, is
\* in the flat directory list and is counted, whatever its depth; a
\* directory deeper than the maximum depth is never listed and its node has
\* no files, no children and total_size 0; a directory within the limit is
\* listed.
C11_DepthLimit ==
  Returned =>
    LET dirs == EncounteredDirs
    IN  /\ \A p \in dirs :
              /\ p \in Range(nodes[Parent(p)].subdirs)
              /\ p \in Range(result.all_dirs)
        /\ result.total_dirs = Cardinality(dirs)
        /\ \A d \in DOMAIN nodes :
              nodes[d].dir_count = Cardinality({p \in dirs : Parent(p) = d})
        /\ \A p \in dirs \cup {Root} :
              IF BeyondLimit(p)
                THEN /\ p \notin Range(listed)
                     /\ nodes[p].files = << >>
                     /\ nodes[p].subdirs = << >>
                     /\ nodes[p].total_size = 0
                     /\ nodes[p].file_count = 0
                     /\ nodes[p].dir_count = 0
                ELSE p \in Range(listed)

\* Maximum depth 0 on root/s/d/c with file root/a: s is recorded with
\* nothing in it and the root's total is the size of a alone.
C11_Witness ==
  /\ Returned
  /\ max_depth = << 0 >>
  /\ fs[S].kind = "dir" /\ fs[D].kind = "dir" /\ fs[C].kind = "file"
  /\ fs[A].kind = "file"
  /\ result.all_dirs = << S >>
  /\ nodes[S].total_size = 0 /\ nodes[S].file_count = 0
  /\ Paths(nodes[Root].files) = {A}
  /\ result.total_size = fs[A].size

HasResult == pc \in {"scanning", "returned"}

\* C12: with follow_symlinks off, nothing is listed at or beneath a symbolic
\* link, neither the link nor anything beneath it is in the tree or in a
\* flat list, and the returned ScanResult is the one of the same tree
\* without the link: the link adds nothing to any size or count.
C12_SymlinksSkipped ==
  ~follow_symlinks =>
    \A p \in Slots :
      fs[p].link =>
        /\ \A q \in Range(listed) : ~IsUnder(q, p)
        /\ HasResult => \A q \in Slots : IsUnder(q, p) => ~InResult(q)
        /\ Returned => ResultOf(Pruned(fs, p))

\* s is a link to a directory that holds file b, s/d/c is a link to a
\* file: in either case the scan is over and only the other files count.
C12_Witness ==
  /\ Returned
  /\ ~follow_symlinks
  /\ fs[A].kind = "file" /\ fs[B].kind = "file"
  /\ \/ /\ fs[S].link
        /\ S \in visited
        /\ DOMAIN nodes = {Root}
        /\ result.total_size = fs[A].size
     \/ /\ fs[C].link /\ fs[C].kind = "file"
        /\ C \in visited
        /\ nodes[D].files = << >>
        /\ result.total_size = fs[A].size + fs[B].size

\* The FileInfo objects held in the file lists of the nodes of the tree.
HeldFiles == UNION {Range(nodes[d].files) : d \in TreeNodes}

\* No object occurs twice in the list.
OnceEach(files) ==
  \A i, j \in DOMAIN files : files[i].id = files[j].id => i = j

\* C13: in a returned ScanResult the objects of all_files are exactly the
\* FileInfo objects of the nodes' file lists (the same objects, by
\* identity), each once, and all_dirs holds every node of the tree but the
\* root, each once.
C13_FlatInventories ==
  Returned =>
    /\ Range(result.all_files) = HeldFiles
    /\ OnceEach(result.all_files)
    /\ \A f, g \in HeldFiles : f.id = g.id => f = g
    /\ Range(result.all_dirs) = TreeNodes \ {Root}
    /\ Len(result.all_dirs) = Cardinality(TreeNodes \ {Root})

\* Three files on three levels and two directories, all recorded.
C13_Witness ==
  /\ Returned
  /\ Len(result.all_files) = 3
  /\ Len(nodes[Root].files) = 1 /\ Len(nodes[S].files) = 1
  /\ Len(nodes[D].files) = 1
  /\ Len(result.all_dirs) = 2

\* The recorded directories directly in d, in the order d lists them.
RecordedIn(d) == SelectSeq(SkelChildren(d), LAMBDA q : q \in DOMAIN nodes)

RECURSIVE PostOrderOf(_)
RECURSIVE PostOrder(_)

\* The recorded directories beneath d: each after everything beneath it.
PostOrder(d) == PostOrderOf(RecordedIn(d))

PostOrderOf(children) ==
  IF children = << >> THEN << >>
  ELSE PostOrder(Head(children)) \o << Head(children) >>
         \o PostOrderOf(Tail(children))

Beneath(p, q) == p # q /\ IsUnder(p, q)

\* C14 as stated: in the flat directory list every directory comes before
\* all directories beneath it.
C14_Original ==
  Returned =>
    \A i, j \in DOMAIN result.all_dirs :
      Beneath(result.all_dirs[j], result.all_dirs[i]) => i < j

\* C14, amended: the flat directory list is in the order in which the
\* directories are finished (post-order): every directory comes after all
\* directories beneath it.
C14_CompletionOrder ==
  Returned =>
    /\ result.all_dirs = PostOrder(Root)
    /\ \A i, j \in DOMAIN result.all_dirs :
          Beneath(result.all_dirs[j], result.all_dirs[i]) => j < i

\* s and s/d are both recorded: s/d comes first.
C14_Witness ==
  /\ Returned
  /\ result.all_dirs = << D, S >>

\* The keys of the subdirs map of node d.
SubdirKeys(d) == {SlotName(c) : c \in Range(nodes[d].subdirs)}

\* C15: in a returned ScanResult total_size is the root's total_size,
\* total_files and total_dirs are the lengths of the two flat lists, and
\* in every node file_count is the length of the file list and dir_count
\* the number of entries of the child map.
C15_CountsMatch ==
  Returned =>
    /\ result.total_size = nodes[result.root].total_size
    /\ result.total_files = Len(result.all_files)
    /\ result.total_dirs = Len(result.all_dirs)
    /\ \A d \in TreeNodes :
          /\ nodes[d].file_count = Len(nodes[d].files)
          /\ nodes[d].dir_count = Cardinality(SubdirKeys(d))
          /\ nodes[d].dir_count = Len(nodes[d].subdirs)

\* Two directories and two files are counted while a third file, smaller
\* than the minimum size, is not.
C15_Witness ==
  /\ Returned
  /\ min_size = MaxFileSize
  /\ Cardinality(FilesIn(fs, Root) \cup FilesIn(fs, S) \cup FilesIn(fs, D)) = 3
  /\ result.total_files = 2
  /\ result.total_dirs = 2
  /\ nodes[S].dir_count = 1

\* The paths the progress callback was called with, in order.
CalledFor == [i \in DOMAIN callbacks |-> callbacks[i].path]

CalledOnce ==
  \A i, j \in DOMAIN callbacks : CalledFor[i] = CalledFor[j] => i = j

\* _scan_directory is still at work on d.
InProgress(d) ==
  \E i \in DOMAIN stack : stack[i].dir = d /\ stack[i].phase # "returned"

\* The callback for d came when nothing was left to do for d: its
\* listing is over, every entry it yielded has been dealt with, and the
\* subdirectories recorded in it have been called for before.
CalledWhenDone ==
  \A j \in DOMAIN callbacks :
    LET d == CalledFor[j]
    IN  /\ ~InProgress(d)
        /\ ListingFailure(d) \/ Range(Entries(d)) \subseteq visited
        /\ \A e \in Range(Entries(d)) : e \in visited => ~InProgress(e)
        /\ \A i \in DOMAIN callbacks : Beneath(CalledFor[i], d) => i < j

\* C16 as stated: the callback is called once for the root and for every
\* node of the flat directory list, whatever the depth limit, with the
\* directory's path, after the directory's entries have been processed and
\* after the calls for the directories beneath it.
C16_Original ==
  /\ CalledOnce
  /\ CalledWhenDone
  /\ Returned => Range(CalledFor) = {Root} \cup Range(result.all_dirs)

\* C16, amended: the same for the root and for every node of the flat
\* directory list whose depth is within the maximum depth; for a
\* directory deeper than the maximum depth the callback is never called.
C16_ProgressCalls ==
  /\ CalledOnce
  /\ CalledWhenDone
  /\ \A d \in Range(CalledFor) : ~BeyondLimit(d)
  /\ Returned =>
        Range(CalledFor) =
          {Root} \cup {d \in Range(result.all_dirs) : ~BeyondLimit(d)}

\* Maximum depth 1 on root/s/d: both directories are recorded, the
\* callback was called for s and then for the root, not for s/d.
C16_Witness ==
  /\ Returned
  /\ max_depth = << 1 >>
  /\ result.all_dirs = << D, S >>
  /\ CalledFor = << S, Root >>

\* The step on which KeyboardInterrupt is raised.
InterruptStep == interrupted' /\ ~interrupted

\* C17: the step that raises the interruption ends the scan call with the
\* interruption (every frame is left), appends nothing to the error log,
\* sets no error marker, records nothing and makes no callback; after it
\* no step of the walk is taken.
C17_InterruptPropagates ==
  /\ [](interrupted => (pc = "interrupted" /\ stack = << >>))
  /\ [][/\ ~interrupted
        /\ InterruptStep =>
             /\ pc' = "interrupted"
             /\ result' = result
             /\ nodes' = nodes
             /\ callbacks' = callbacks
             /\ history' = history
             /\ files_scanned' = files_scanned
             /\ dirs_scanned' = dirs_scanned]_vars

\* The interruption came inside s, after file s/b was recorded and before
\* root/a was reached: a is never visited and the log is empty.
C17_Witness ==
  /\ interrupted
  /\ pc = "interrupted"
  /\ S \in visited /\ S \notin Range(result.all_dirs)
  /\ Paths(result.all_files) = {B}
  /\ fs[A].kind = "file" /\ A \notin visited
  /\ result.errors = << >>

\* The binary multiplier of a unit, as a power of 1024.
BinaryPower(u) ==
  CASE u = << "B" >>      -> 0
    [] u = << "K", "B" >> -> 1
    [] u = << "M", "B" >> -> 2
    [] u = << "G", "B" >> -> 3
    [] u = << "T", "B" >> -> 4

UnitNames ==
  { << "B" >>, << "K", "B" >>, << "M", "B" >>, << "G", "B" >>,
    << "T", "B" >> }

\* C18: parse_size of the decimal text of n followed by a unit returns n
\* times the binary multiplier of the unit, and parse_size of the decimal
\* text of n alone returns n.
C18_ParseSize ==
  call.fn = "parse_size" =>
    \A n \in 0..MaxNumber :
      /\ call.arg = Decimal(n) => call.ret = Returns(Bytes(n))
      /\ \A u \in UnitNames :
            call.arg = Decimal(n) \o u =>
              call.ret = Returns(Scaled(Bytes(n), BinaryPower(u)))

\* C19: for a byte count n = m * 1024^k with 1 <= m < 1024 and k in 0..4,
\* parse_size(format_size(n)) returns n.
C19_RoundTrip ==
  (/\ call.fn = "parse_size"
   /\ call.from # << >>
   /\ \E m \in 1..1023, k \in 0..4 : call.from = << Zeros(k) \o << m >> >>)
    => call.ret = Returns(call.from[1])

\* scan has been called a second time.
Second == earlier # << >>

\* The FileInfo objects a result refers to, in its flat list or its nodes.
FilesWithin(r, heap) ==
  Range(r.all_files) \cup UNION {Range(heap[d].files) : d \in DOMAIN heap}

\* C20: the ScanResult of a second scan call and the DirInfo and FileInfo
\* objects it refers to are none of the first call's; its totals are the
\* lengths of its own lists and, the file system being the same, equal to
\* the totals of the first; what the first call returned is not changed by
\* the second.
C20_FreshResult ==
  /\ []((Second /\ HasResult) =>
         LET first == earlier[1]
         IN  /\ result.made_by # first.result.made_by
             /\ \A d \in DOMAIN nodes : \A e \in DOMAIN first.nodes :
                   nodes[d].made_by # first.nodes[e].made_by
             /\ \A f \in FilesWithin(result, nodes) :
                   \A g \in FilesWithin(first.result, first.nodes) :
                     f.id # g.id
             /\ Returned =>
                   /\ result.total_files = Len(result.all_files)
                   /\ result.total_dirs = Len(result.all_dirs)
                   /\ result.total_size = SumSizes(result.all_files)
                   /\ result.total_files = first.result.total_files
                   /\ result.total_dirs = first.result.total_dirs
                   /\ result.total_size = first.result.total_size)
  /\ [][Second => earlier' = earlier]_vars

\* Both calls have returned, each with three files and two directories.
C20_Witness ==
  /\ Second
  /\ Returned
  /\ Len(result.all_files) = 3 /\ Len(result.all_dirs) = 2
  /\ Len(earlier[1].result.all_files) = 3
  /\ result.total_files = 3

\* ------------------------------------------------------------------------
\* Properties of the duplicate detector.
\* ------------------------------------------------------------------------
DupReturned == dup.pc = "returned"

\* The paths of the members of a group.
Members(group) == {group.files[i].path : i \in DOMAIN group.files}

\* The groups a path is a member of.
GroupsOf(p) == {i \in DOMAIN dup.groups : p \in Members(dup.groups[i])}

\* The input files of the minimum size or more that are read without
\* failure.
Eligible ==
  {p \in DOMAIN dup.disk :
     /\ Len(dup.disk[p].content) >= dup.min_size
     /\ dup.disk[p].fault = "None"}

SameContent(p, q) == dup.disk[p].content = dup.disk[q].content

Together(p, q) == GroupsOf(p) \cap GroupsOf(q) # {}

\* C21: when find_duplicates has returned, two distinct input files that
\* meet the minimum size and are hashed without failure are members of the
\* same group exactly when they hold the same bytes; no file is a member
\* of two groups, or twice a member of one.
C21_GroupsByContent ==
  DupReturned =>
    /\ \A p, q \in Eligible :
          p # q => (Together(p, q) <=> SameContent(p, q))
    /\ \A p \in DOMAIN dup.disk : Cardinality(GroupsOf(p)) <= 1
    /\ \A i \in DOMAIN dup.groups :
          Cardinality(Members(dup.groups[i])) = Len(dup.groups[i].files)

\* Two files of the same bytes share a group that a third file, of the
\* same size and the same first byte but other bytes, is not in.
C21_Witness ==
  /\ DupReturned
  /\ \E p, q, r \in Eligible :
        /\ p # q /\ SameContent(p, q) /\ Together(p, q)
        /\ Len(dup.disk[r].content) = Len(dup.disk[p].content)
        /\ partialHash(FileEntry(dup.disk, r), PrefixBytes)
             = partialHash(FileEntry(dup.disk, p), PrefixBytes)
        /\ ~SameContent(p, r) /\ ~Together(p, r)

\* C22: the list find_duplicates returns is in descending order of wasted
\* space: no group is followed by a group that wastes more.
C22_SortedByWasted ==
  DupReturned =>
    \A i \in 1..(Len(dup.groups) - 1) :
      dup.groups[i].wasted_size >= dup.groups[i + 1].wasted_size

\* Two groups are returned, and the one that wastes more comes first
\* although its files come later in the file list.
C22_Witness ==
  /\ DupReturned
  /\ Len(dup.groups) >= 2
  /\ dup.groups[1].wasted_size > dup.groups[2].wasted_size
  /\ dup.groups[2].files[1].path < dup.groups[1].files[1].path

\* The input files that fail to be hashed at some stage.
Failing == {p \in DOMAIN dup.disk : dup.disk[p].fault # "None"}

\* The file list without the files that fail.
Readable == SelectSeq(dup.files, LAMBDA f : f.path \notin Failing)

\* The paths among the candidates of the stage reached.
Candidates ==
  UNION {Members(dup.candidates[i]) : i \in DOMAIN dup.candidates}

Groups(list) == {list[i] : i \in DOMAIN list}

\* C23: a file that fails to hash is dropped at the stage where it fails:
\* one that cannot be opened is no candidate after the partial-hash stage,
\* one that fails later is no candidate after the full-hash stage; it is a
\* member of no group, and the groups returned are the groups
\* find_duplicates returns for the file list without the failing files.
C23_FailingFileDropped ==
  /\ dup.pc = "hashed" =>
       \A p \in Failing : dup.disk[p].fault = "open" => p \notin Candidates
  /\ DupReturned =>
       /\ \A p \in Failing : GroupsOf(p) = {}
       /\ Groups(dup.groups) = Groups(findDuplicates(Readable, dup.min_size))

\* A file failed at the full-hash stage, after it had passed the partial
\* hash with two files of the same bytes, and those two are returned as a
\* group.
C23_Witness ==
  /\ DupReturned
  /\ \E p \in Failing, q, r \in Eligible :
        /\ dup.disk[p].fault = "late"
        /\ Len(dup.disk[p].content) >= dup.min_size
        /\ q # r /\ SameContent(p, q) /\ SameContent(p, r)
        /\ Together(q, r)

\* C24: every group returned has 2 members or more, every member has the
\* size of the group on disk and in its FileEntry, and the wasted space is
\* the size times one less than the number of members; after no stage is
\* a set of one file left among the candidates.
C24_GroupShape ==
  /\ dup.pc \in {"sized", "hashed"} =>
       \A i \in DOMAIN dup.candidates : Len(dup.candidates[i].files) >= 2
  /\ DupReturned =>
       \A i \in DOMAIN dup.groups :
         LET group == dup.groups[i]
         IN  /\ Count(group) >= 2
             /\ \A j \in DOMAIN group.files :
                  /\ group.files[j].size = group.size
                  /\ Len(dup.disk[group.files[j].path].content) = group.size
             /\ group.wasted_size = group.size * (Count(group) - 1)

\* A group of three files of two bytes is returned, wasting four bytes,
\* and a file that is alone with its bytes is in no group.
C24_Witness ==
  /\ DupReturned
  /\ \E i \in DOMAIN dup.groups :
        /\ Count(dup.groups[i]) = 3
        /\ dup.groups[i].size = 2
        /\ dup.groups[i].wasted_size = 4
  /\ \E p \in Eligible :
        /\ GroupsOf(p) = {}
        /\ \A q \in DOMAIN dup.disk : q # p => ~SameContent(p, q)

\* The input files smaller than the minimum size of the detector.
BelowDupMinimum ==
  {p \in DOMAIN dup.disk : Len(dup.disk[p].content) < dup.min_size}

\* C25: a file smaller than the minimum size of the detector is no
\* candidate after any stage and a member of no group returned, whatever
\* other files hold the same bytes.
C25_BelowMinimumExcluded ==
  /\ dup.pc \in {"sized", "hashed"} => BelowDupMinimum \cap Candidates = {}
  /\ DupReturned => \A p \in BelowDupMinimum : GroupsOf(p) = {}

\* Two readable files of the same bytes are below the minimum size and in
\* no group, while larger duplicates are returned as a group.
C25_Witness ==
  /\ DupReturned
  /\ dup.groups # << >>
  /\ \E p, q \in BelowDupMinimum :
        /\ p # q /\ SameContent(p, q)
        /\ dup.disk[p].fault = "None" /\ dup.disk[q].fault = "None"
        /\ GroupsOf(p) = {} /\ GroupsOf(q) = {}

\* ------------------------------------------------------------------------
\* Finality of the directories.
\* ------------------------------------------------------------------------
\* The DirInfo of d exists and _scan_directory is not running for it.
Finished(d) == d \in DOMAIN nodes /\ ~InProgress(d)

\* Whatever was put into a parent is finished, with everything beneath it.
LinkedWhenFinished ==
  \A d \in DOMAIN nodes :
    \A c \in Range(nodes[d].subdirs) : \A e \in Reach(c) : Finished(e)

\* A total holds the directory's own files and the totals of the
\* directories put into it, nothing of a directory still being scanned.
TotalsOfLinkedOnly ==
  \A d \in DOMAIN nodes :
    nodes[d].total_size =
      SumSizes(nodes[d].files) + SumTotals(nodes[d].subdirs)

FinishedStaysAsItIs ==
  \A d \in DOMAIN nodes :
    Finished(d) =>
      /\ d \in DOMAIN nodes'
      /\ nodes'[d].total_size = nodes[d].total_size
      /\ nodes'[d].files = nodes[d].files
      /\ nodes'[d].subdirs = nodes[d].subdirs

\* C26: a directory the callback was called for is finished; no step
\* changes the total_size, the files or the subdirs of a finished
\* directory; a directory is in its parent's subdirs, and its total in the
\* parent's total, only when it and everything beneath it is finished.
C26_PostOrderFinality ==
  /\ [](\A d \in Range(CalledFor) : Finished(d))
  /\ []LinkedWhenFinished
  /\ []TotalsOfLinkedOnly
  /\ [][FinishedStaysAsItIs]_vars

\* s/d is finished with a file in it and has been put into s, which is
\* still being scanned and is not yet in the root.
C26_Witness ==
  /\ Running
  /\ Finished(D)
  /\ D \in Range(CalledFor)
  /\ nodes[D].total_size > 0
  /\ InProgress(S)
  /\ D \in Range(nodes[S].subdirs)
  /\ nodes[Root].subdirs = << >>

\* ------------------------------------------------------------------------
\* Properties of the threads.
\* ------------------------------------------------------------------------
RECURSIVE Total(_, _)
Total(ts, f) ==
  IF ts = {}
    THEN 0
    ELSE LET t == CHOOSE x \in ts : TRUE IN f[t] + Total(ts \ {t}, f)

\* The record steps of a kind that were begun.
Begun(kind) ==
  Total(DOMAIN threads,
        [t \in DOMAIN threads |->
           IF kind = "file" THEN threads[t].all_files
                            ELSE threads[t].all_dirs])

\* The threads in a record step of a kind whose increment is still to be
\* stored.
Pending(kind) ==
  {t \in DOMAIN threads :
     /\ threads[t].pc \in {"acquire", "load", "store"}
     /\ Recording(t) = kind}

AllDone ==
  /\ threads # NoThreads
  /\ \A t \in DOMAIN threads :
       threads[t].pc = "walk" /\ threads[t].work = << >>

\* A counter changes only by the thread that holds the lock, by one.
IncrementUnderLock ==
  /\ files_scanned' # files_scanned =>
        /\ lock \in DOMAIN threads /\ lock' = lock
        /\ threads[lock].pc = "store"
        /\ files_scanned' = files_scanned + 1
  /\ dirs_scanned' # dirs_scanned =>
        /\ lock \in DOMAIN threads /\ lock' = lock
        /\ threads[lock].pc = "store"
        /\ dirs_scanned' = dirs_scanned + 1

\* C27: the threads that record files and directories change the counters
\* only while holding the lock and only by one; at every moment a counter
\* is the number of record steps begun less those whose increment is
\* pending, and when all threads are done it is the number of record steps
\* executed.
C27_NoLostIncrement ==
  /\ [][IncrementUnderLock]_vars
  /\ [](/\ files_scanned = Begun("file") - Cardinality(Pending("file"))
        /\ dirs_scanned = Begun("dir") - Cardinality(Pending("dir")))
  /\ [](AllDone =>
          /\ files_scanned = Begun("file")
          /\ dirs_scanned = Begun("dir"))

\* Both threads have recorded two files each and are done, and the
\* counter is 4.
C27_Witness ==
  /\ AllDone
  /\ \A t \in DOMAIN threads : threads[t].all_files = 2
  /\ files_scanned = 4

ScanReturned(t) == threads # NoThreads /\ threads[t].pc = "returned"

\* C28: when two calls of scan on one scanner overlap, the ScanResult each
\* returns has total_files = the length of its flat file list and
\* total_dirs = the length of its flat directory list.
C28_OverlappingScans ==
  \A t \in DOMAIN threads :
    ScanReturned(t) =>
      /\ threads[t].total_files = threads[t].all_files
      /\ threads[t].total_dirs = threads[t].all_dirs

\* ------------------------------------------------------------------------
\* Termination.
\* ------------------------------------------------------------------------
\* No directory is listed twice.
ListedOnce ==
  \A i, j \in DOMAIN listed : listed[i] = listed[j] => i = j

\* C29: with follow_symlinks off, whatever the tree, the patterns, the
\* minimum size, the maximum depth and the failures, no directory is
\* listed twice and scan of a root that is a directory eventually returns
\* its ScanResult.
C29_Terminates ==
  /\ [](~follow_symlinks => ListedOnce)
  /\ (~follow_symlinks /\ RootAccepted) ~> (Returned /\ result # NoResult)

\* scan has returned with follow_symlinks off from a tree of three levels
\* that holds a symbolic link, every directory listed.
C29_Witness ==
  /\ Returned
  /\ ~follow_symlinks
  /\ \E e \in visited : fs[e].link
  /\ Range(listed) = {Root, S, D}

\* The same after a failure of a listing.
C29_WitnessFailure ==
  /\ Returned
  /\ ~follow_symlinks
  /\ \E d \in Range(listed) : ListingFailure(d)
  /\ S \in Range(listed)

\* ------------------------------------------------------------------------
\* The analyzer reads only.
\* ------------------------------------------------------------------------
\* C30: once scan has returned, no call of get_top_directories,
\* get_top_files, get_extension_stats, get_directory_tree, get_summary,
\* get_size_distribution, get_treemap_data or get_old_files changes the
\* ScanResult (its totals, its flat lists and their order, its error log)
\* or a DirInfo of the tree.
C30_AnalyzerReadsOnly ==
  [][pc = "returned" => result' = result /\ nodes' = nodes]_vars

\* get_old_files has been called with every file old on a result whose
\* flat file list is not in descending order of size, and returned the
\* files in another order than the flat list has.
C30_Witness ==
  /\ pc = "returned"
  /\ answer.fn = "get_old_files"
  /\ Len(result.all_files) >= 2
  /\ Len(answer.value) = Len(result.all_files)
  /\ answer.value # result.all_files

====
